---- MODULE Spec2Model ----
(***************************************************************************)
(* State-machine model of the two applications of the repository: the      *)
(* movie ticket booking flow (SeatSelector over bookings / booking_seats / *)
(* showtimes) and the marketplace flows (cart, customer and retailer       *)
(* checkout, wholesale purchase, retail price dialog, sign-up page).       *)
(*                                                                         *)
(* Every backend call (one supabase request) is one atomic step; the code  *)
(* that runs between two awaits is folded into the step of the call that   *)
(* precedes it.  A backend call may fail for reasons outside the model     *)
(* (transport, server), which is the nondeterministic choice `ok`.         *)
(* Money is counted in hundredths (the numeric(10,2) columns).             *)
(***************************************************************************)
EXTENDS Integers, Sequences, FiniteSets, TLC

VARIABLES
    showtimes,      \* the showtimes row of the modelled showtime
    bookings,       \* table bookings, in insertion order (id = index)
    booking_seats,  \* table booking_seats, a set of rows (the uuid key left out)
    seatSel,        \* per browser client: MovieDetail page + SeatSelector state
    products,       \* table products, in insertion order (id = index)
    cart,           \* table cart, a set of rows
    cartIds,        \* number of cart ids handed out so far (ids are never reused)
    orders,         \* table orders, in insertion order (id = index)
    order_items,    \* table order_items, a set of rows (the uuid key left out)
    checkout,       \* the two checkout dialogs: customer and retailer
    buy,            \* retailer dashboard: the "buy from wholesaler" dialog
    priceDialog,    \* retailer dashboard: SetPriceDialog
    tabs,           \* browser tabs of customers running addToCart
    retailerCart,   \* RetailerCart: the fetched cartItems
    response,       \* marketplace flows: the backend's answer to the call of the last step
    toast,          \* marketplace flows: the toast the last step put on screen
    auth,           \* the Auth page: the state of the component
    accounts        \* auth.users with the user's user_roles row and profiles.city

cinemaVars == <<showtimes, bookings, booking_seats, seatSel>>
marketTables == <<products, cart, cartIds, orders, order_items>>
authVars == <<auth, accounts>>
marketUI == <<checkout, buy, priceDialog, tabs, retailerCart, response, toast, authVars>>
exceptCheckout == <<cinemaVars, buy, priceDialog, tabs, retailerCart, authVars>>
exceptBuy == <<cinemaVars, checkout, priceDialog, tabs, retailerCart, authVars>>
exceptPriceDialog == <<cinemaVars, checkout, buy, tabs, retailerCart, authVars>>
exceptTabs == <<cinemaVars, checkout, buy, priceDialog, retailerCart, authVars>>
exceptRetailerCart == <<cinemaVars, checkout, buy, priceDialog, tabs, authVars>>
vars == <<showtimes, bookings, booking_seats, seatSel, products, cart, cartIds,
          orders, order_items, checkout, buy, priceDialog, tabs, retailerCart,
          response, toast, auth, accounts>>

\* The answer to one backend call, and the toast a step shows.
Answer(ok) == IF ok THEN "ok" ELSE "error"

NoUser == "nobody"
NoId == 0

Range(s) == {s[i] : i \in DOMAIN s}

(***************************************************************************)
(* Cinema application                                                      *)
(***************************************************************************)

\* Bound: bookings rows the model lets the table grow to.
MaxBookings == 2

\* Browser clients and the accounts they are signed in with.
Clients == {"c1", "c2"}
CinemaUsers == {"u1", "u2", "admin"}

\* public.has_role(auth.uid(), 'admin')
IsAdmin(u) == u = "admin"

\* The theater row of the showtime.
Theater == [total_rows |-> 1, seats_per_row |-> 2]

\* showtimes.price default, in hundredths
ShowtimePrice == 15000

TheShowtime == "st1"

\* handleAddShowtime: available_seats: theater.total_rows * theater.seats_per_row
InitialAvailableSeats == Theater.total_rows * Theater.seats_per_row

\* Number.prototype.toString for a non-negative integer, as character codes.
RECURSIVE DecimalString(_)
DecimalString(n) ==
    IF n < 10 THEN <<48 + n>>
    ELSE DecimalString(n \div 10) \o <<48 + (n % 10)>>

\* parseInt of a string: the longest prefix of decimal digits (NaN is -1 here).
RECURSIVE ParseDigits(_, _)
ParseDigits(s, acc) ==
    IF s = <<>> \/ Head(s) < 48 \/ Head(s) > 57 THEN acc
    ELSE ParseDigits(Tail(s), 10 * acc + (Head(s) - 48))

NaN == -1

parseInt(s) ==
    IF s = <<>> \/ Head(s) < 48 \/ Head(s) > 57 THEN NaN ELSE ParseDigits(s, 0)

\* String.fromCharCode keeps the low 16 bits of its argument.
fromCharCode(n) == n % 65536

\* getSeatLabel: `${String.fromCharCode(65 + row)}${col + 1}`
getSeatLabel(row, col) == <<fromCharCode(65 + row)>> \o DecimalString(col + 1)

\* The labels of the rendered grid.
GridLabels ==
    {getSeatLabel(r, c) : r \in 0..(Theater.total_rows - 1),
                          c \in 0..(Theater.seats_per_row - 1)}

\* Row level security of the cinema tables.
\* "Users can view own bookings"
CanViewBooking(u, b) == b.user_id = u \/ IsAdmin(u)
\* "Users can create bookings"
CanInsertBooking(u, b) == b.user_id = u
\* "Users can view own booking seats"
CanViewBookingSeat(u, s) ==
    \E i \in DOMAIN bookings : i = s.booking_id /\ CanViewBooking(u, bookings[i])
\* "Users can create booking seats"
CanInsertBookingSeat(u, s) ==
    \E i \in DOMAIN bookings : i = s.booking_id /\ bookings[i].user_id = u
\* "Admins can update showtimes"
CanUpdateShowtime(u) == IsAdmin(u)

\* The seat labels held by confirmed bookings of the showtime (no row policy).
ConfirmedSeatLabels ==
    {s.seat_label : s \in
        {r \in booking_seats :
            /\ bookings[r.booking_id].showtime_id = TheShowtime
            /\ bookings[r.booking_id].status = "confirmed"}}

\* A schema that also kept seats unique among the confirmed bookings of a showtime.
BookingSeatsInsertUniqueSeat(u, rows) ==
    \A r \in rows :
        /\ r.booking_id \in DOMAIN bookings
        /\ CanInsertBookingSeat(u, r)
        /\ r.seat_label \notin ConfirmedSeatLabels

\* What the schema demands of rows inserted into booking_seats: the foreign key
\* to bookings and the row policy.  It has no uniqueness constraint on seats.
BookingSeatsInsertAllowed(u, rows) ==
    \A r \in rows :
        /\ r.booking_id \in DOMAIN bookings
        /\ CanInsertBookingSeat(u, r)

\* useState initial values of SeatSelector, under the page state of MovieDetail.
ClosedClient ==
    [pc |-> "page", user |-> NoUser,
     showtime |-> -1,            \* props.showtime.available_seats
     fetch |-> "idle",           \* progress of fetchBookedSeats
     bookingIds |-> {},          \* ids returned by the first query of the fetch
     bookedSeats |-> {}, selectedSeats |-> {},
     bookingData |-> NoId, booking |-> FALSE,
     atLoad |-> {}]              \* confirmed seat labels when the selector mounted

BookingInit ==
    /\ auth = <<>> /\ accounts = <<>>
    /\ showtimes = [available_seats |-> InitialAvailableSeats, price |-> ShowtimePrice]
    /\ bookings = <<>>
    /\ booking_seats = {}
    /\ seatSel \in {f \in [Clients -> {[ClosedClient EXCEPT !.user = u] : u \in CinemaUsers}] :
                        f["c1"].user = "u1" /\ f["c2"].user # "u1"}
    /\ products = <<>> /\ cart = {} /\ cartIds = 0
    /\ orders = <<>> /\ order_items = {}
    /\ checkout = <<>> /\ buy = <<>> /\ priceDialog = <<>>
    /\ tabs = <<>> /\ retailerCart = <<>>
    /\ response = "none"
    /\ toast = "none"

\* MovieDetail: fetchShowtimes (on mount and after each completed booking), then
\* the "Select Seats" button of the showtime (disabled when available_seats === 0)
\* mounts the SeatSelector with that row, and its effect starts fetchBookedSeats.
OpenSelector(c) ==
    /\ seatSel[c].pc = "page"
    /\ showtimes.available_seats # 0
    /\ seatSel' = [seatSel EXCEPT ![c] =
            [ClosedClient EXCEPT !.pc = "open", !.user = seatSel[c].user,
                !.showtime = showtimes.available_seats, !.fetch = "bookings",
                !.atLoad = ConfirmedSeatLabels]]
    /\ UNCHANGED <<showtimes, bookings, booking_seats, marketTables, marketUI>>

\* fetchBookedSeats, first query: confirmed bookings of the showtime the user may see.
FetchBookings(c) ==
    /\ seatSel[c].pc # "page"
    /\ seatSel[c].fetch = "bookings"
    /\ \E ok \in BOOLEAN :
        LET ids == {i \in DOMAIN bookings :
                        /\ bookings[i].showtime_id = TheShowtime
                        /\ bookings[i].status = "confirmed"
                        /\ CanViewBooking(seatSel[c].user, bookings[i])}
        IN /\ seatSel' = [seatSel EXCEPT
                ![c].bookingIds = IF ok THEN ids ELSE {},
                ![c].fetch = IF ok /\ ids # {} THEN "seats" ELSE "done"]
    /\ UNCHANGED <<showtimes, bookings, booking_seats, marketTables, marketUI>>

\* fetchBookedSeats, second query: setBookedSeats(new Set(seats?.map(...) || []))
FetchSeats(c) ==
    /\ seatSel[c].pc # "page"
    /\ seatSel[c].fetch = "seats"
    /\ \E ok \in BOOLEAN :
        LET seen == {s.seat_label : s \in
                        {r \in booking_seats :
                            /\ r.booking_id \in seatSel[c].bookingIds
                            /\ CanViewBookingSeat(seatSel[c].user, r)}}
        IN /\ seatSel' = [seatSel EXCEPT
                ![c].bookedSeats = IF ok THEN seen ELSE {},
                ![c].bookingIds = {},
                ![c].fetch = "done"]
    /\ UNCHANGED <<showtimes, bookings, booking_seats, marketTables, marketUI>>

\* toggleSeat; the grid is on screen from the mount on, while the fetch is running.
toggleSeat(c, label) ==
    /\ seatSel[c].pc = "open"
    /\ label \notin seatSel[c].bookedSeats
    /\ seatSel' = [seatSel EXCEPT ![c].selectedSeats =
            IF label \in @ THEN @ \ {label} ELSE @ \cup {label}]
    /\ UNCHANGED <<showtimes, bookings, booking_seats, marketTables, marketUI>>

\* handleBooking: the row built from one selected label,
\* row = label.charCodeAt(0) - 65, col = parseInt(label.slice(1)) - 1.
seatInsert(booking_id, label) ==
    [booking_id |-> booking_id,
     seat_row |-> label[1] - 65,
     seat_col |-> parseInt(Tail(label)) - 1,
     seat_label |-> label]

\* handleBooking: seatInserts, the rows built from the selected labels.
SeatInserts(c) ==
    {seatInsert(seatSel[c].bookingData, label) : label \in seatSel[c].selectedSeats}

\* The catch and finally blocks of handleBooking: toast.error, setBooking(false).
BookingFailed(c) ==
    [seatSel EXCEPT ![c].booking = FALSE, ![c].pc = "open"]

\* A total that charges one seat, whatever the number of selected seats.
totalAmountOfOneSeat(selectedSeats, price) == price

\* handleBooking: const totalAmount = selectedSeats.length * Number(showtime.price)
totalAmount(selectedSeats, price) == Cardinality(selectedSeats) * price

\* handleBooking up to the bookings insert and its error check.
HandleBookingInsert(c) ==
    /\ seatSel[c].pc = "open"
    /\ ~seatSel[c].booking
    /\ seatSel[c].user # NoUser
    /\ seatSel[c].selectedSeats # {}
    /\ Len(bookings) < MaxBookings
    /\ \E ok \in BOOLEAN :
        LET row == [user_id |-> seatSel[c].user, showtime_id |-> TheShowtime,
                    total_amount |-> totalAmount(seatSel[c].selectedSeats, showtimes.price),
                    status |-> "confirmed", payment_method |-> "card"]
            done == ok /\ CanInsertBooking(seatSel[c].user, row)
        IN /\ IF done
              THEN /\ bookings' = Append(bookings, row)
                   /\ seatSel' = [seatSel EXCEPT ![c].booking = TRUE,
                            ![c].bookingData = Len(bookings) + 1, ![c].pc = "seats"]
              ELSE /\ bookings' = bookings
                   /\ seatSel' = BookingFailed(c)
    /\ UNCHANGED <<showtimes, booking_seats, marketTables, marketUI>>

\* handleBooking: the booking_seats insert and its error check.
HandleBookingSeats(c) ==
    /\ seatSel[c].pc = "seats"
    /\ \E ok \in BOOLEAN :
        LET done == ok /\ BookingSeatsInsertAllowed(seatSel[c].user, SeatInserts(c))
        IN /\ IF done
              THEN /\ booking_seats' = booking_seats \cup SeatInserts(c)
                   /\ seatSel' = [seatSel EXCEPT ![c].pc = "update"]
              ELSE /\ booking_seats' = booking_seats
                   /\ seatSel' = BookingFailed(c)
    /\ UNCHANGED <<showtimes, bookings, marketTables, marketUI>>

\* handleBooking: the showtimes update (its result is not looked at), then
\* onBookingComplete of MovieDetail and the finally block.
HandleBookingUpdate(c) ==
    /\ seatSel[c].pc = "update"
    /\ \E ok \in BOOLEAN :
        /\ showtimes' =
            IF ok /\ CanUpdateShowtime(seatSel[c].user)
            THEN [showtimes EXCEPT !.available_seats =
                    seatSel[c].showtime - Cardinality(seatSel[c].selectedSeats)]
            ELSE showtimes
        /\ seatSel' = [seatSel EXCEPT ![c] =
                [ClosedClient EXCEPT !.user = seatSel[c].user]]
    /\ UNCHANGED <<bookings, booking_seats, marketTables, marketUI>>

\* onBack
CloseSelector(c) ==
    /\ seatSel[c].pc = "open"
    /\ seatSel' = [seatSel EXCEPT ![c] =
            [ClosedClient EXCEPT !.user = seatSel[c].user]]
    /\ UNCHANGED <<showtimes, bookings, booking_seats, marketTables, marketUI>>

BookingNext ==
    \E c \in Clients :
        \/ OpenSelector(c)
        \/ FetchBookings(c)
        \/ FetchSeats(c)
        \/ \E label \in GridLabels : toggleSeat(c, label)
        \/ HandleBookingInsert(c)
        \/ HandleBookingSeats(c)
        \/ HandleBookingUpdate(c)
        \/ CloseSelector(c)

SpecBooking == BookingInit /\ [][BookingNext]_vars

\* The seat labels stored for booking id.
SeatsOfBooking(id) == {r.seat_label : r \in {s \in booking_seats : s.booking_id = id}}

(***************************************************************************)
(* Properties of the cinema application                                    *)
(***************************************************************************)

\* C1: nothing rejects a booking because of the seats it names: whenever a client
\* is about to insert its seat rows the schema accepts them, whatever is booked
\* already, and once they are inserted its confirmed booking holds exactly the
\* seats it selected.
C1_SecondBookingNotRejected ==
    \A c \in Clients :
        /\ seatSel[c].pc = "seats" =>
                BookingSeatsInsertAllowed(seatSel[c].user, SeatInserts(c))
        /\ seatSel[c].pc = "update" =>
                /\ bookings[seatSel[c].bookingData].status = "confirmed"
                /\ SeatsOfBooking(seatSel[c].bookingData) = seatSel[c].selectedSeats

\* C1 witness: two clients that loaded the selector while no seat was booked have
\* both inserted their rows, and two confirmed bookings of the showtime share a seat.
C1_DoubleBooked ==
    /\ \A c \in Clients : seatSel[c].pc = "update" /\ seatSel[c].atLoad = {}
    /\ \E b1, b2 \in DOMAIN bookings :
        /\ b1 # b2
        /\ bookings[b1].status = "confirmed" /\ bookings[b2].status = "confirmed"
        /\ bookings[b1].showtime_id = bookings[b2].showtime_id
        /\ SeatsOfBooking(b1) \cap SeatsOfBooking(b2) # {}

\* C2: once the selector has loaded, every seat that a confirmed booking of the
\* showtime (of any user) held when it loaded is disabled and is not selected.
C2_BookedSeatsDisabled ==
    \A c \in Clients :
        seatSel[c].fetch = "done" =>
            /\ seatSel[c].atLoad \subseteq seatSel[c].bookedSeats
            /\ seatSel[c].selectedSeats \cap seatSel[c].atLoad = {}

\* C12: once no handleBooking is under way, the stored available_seats is the
\* initial number of seats less the number of seats booked so far.
C12_AvailableSeatsDecremented ==
    (\A c \in Clients : seatSel[c].pc \notin {"seats", "update"}) =>
        showtimes.available_seats = InitialAvailableSeats - Cardinality(booking_seats)

\* C16: a handleBooking that runs to its end inserts one booking, confirmed, of
\* the signed-in user, with total_amount = number of selected seats times the
\* showtime price; then one booking_seats row per selected seat, all linked to
\* that booking; and nothing more into either table.
C16_OneBookingWithItsSeats ==
    [][\A c \in Clients :
        /\ (seatSel[c].pc = "open" /\ seatSel'[c].pc = "seats") =>
                /\ Len(bookings') = Len(bookings) + 1
                /\ SubSeq(bookings', 1, Len(bookings)) = bookings
                /\ seatSel'[c].bookingData = Len(bookings')
                /\ bookings'[Len(bookings')].status = "confirmed"
                /\ bookings'[Len(bookings')].user_id = seatSel[c].user
                /\ bookings'[Len(bookings')].total_amount =
                        Cardinality(seatSel[c].selectedSeats) * ShowtimePrice
                /\ booking_seats' = booking_seats
        /\ (seatSel[c].pc = "seats" /\ seatSel'[c].pc = "update") =>
                /\ bookings' = bookings
                /\ booking_seats \subseteq booking_seats'
                /\ LET new == booking_seats' \ booking_seats
                   IN /\ Cardinality(new) = Cardinality(seatSel[c].selectedSeats)
                      /\ {r.seat_label : r \in new} = seatSel[c].selectedSeats
                      /\ \A r \in new : r.booking_id = seatSel[c].bookingData
        /\ (seatSel[c].pc = "update" /\ seatSel'[c].pc = "page") =>
                /\ bookings' = bookings
                /\ booking_seats' = booking_seats
      ]_vars

\* C16 witness: a booking of two seats is stored, at twice the showtime price,
\* and its handler is about to finish.
C16_TwoSeatsBooked ==
    \E c \in Clients :
        /\ seatSel[c].pc = "update"
        /\ Cardinality(seatSel[c].selectedSeats) = 2
        /\ bookings[seatSel[c].bookingData].total_amount = 2 * ShowtimePrice
        /\ Cardinality({r \in booking_seats : r.booking_id = seatSel[c].bookingData}) = 2

\* C17: a confirmed booking whose handler is not just between its two inserts
\* has at least one booking_seats row.
C17_ConfirmedBookingHasSeats ==
    \A b \in DOMAIN bookings :
        (/\ bookings[b].status = "confirmed"
         /\ ~\E c \in Clients : seatSel[c].pc = "seats" /\ seatSel[c].bookingData = b)
        => SeatsOfBooking(b) # {}

(***************************************************************************)
(* Seat labels of the grid                                                 *)
(*                                                                         *)
(* The grid of SeatSelector for a theater of any size the admin form can   *)
(* store (handleAddTheater puts no upper limit on total_rows): one cell is *)
(* rendered with getSeatLabel, then decoded the way handleBooking does.    *)
(* Here seatSel holds the grid: the theater, the cell and its label.       *)
(***************************************************************************)

\* Bounds: the largest theater of the model.
MaxGridRows == 27
MaxGridCols == 12

SeatLabelInit ==
    /\ auth = <<>> /\ accounts = <<>>
    /\ \E rows \in 1..MaxGridRows, cols \in 1..MaxGridCols :
            seatSel = [pc |-> "grid", rows |-> rows, cols |-> cols,
                       row |-> -1, col |-> -1, label |-> <<>>,
                       seat_row |-> -1, seat_col |-> -1]
    /\ showtimes = [available_seats |-> 0, price |-> ShowtimePrice]
    /\ bookings = <<>>
    /\ booking_seats = {}
    /\ products = <<>> /\ cart = {} /\ cartIds = 0
    /\ orders = <<>> /\ order_items = {}
    /\ checkout = <<>> /\ buy = <<>> /\ priceDialog = <<>>
    /\ tabs = <<>> /\ retailerCart = <<>>
    /\ response = "none"
    /\ toast = "none"

\* The seat grid: Array.from({ length: rows }) x Array.from({ length: cols }),
\* const label = getSeatLabel(row, col).
RenderSeat(row, col) ==
    /\ seatSel.pc = "grid"
    /\ row \in 0..(seatSel.rows - 1)
    /\ col \in 0..(seatSel.cols - 1)
    /\ seatSel' = [seatSel EXCEPT !.pc = "rendered", !.row = row, !.col = col,
                        !.label = getSeatLabel(row, col)]
    /\ UNCHANGED <<showtimes, bookings, booking_seats, marketTables, marketUI>>

\* handleBooking: the seat_row and seat_col it stores for the label.
DecodeSeat ==
    /\ seatSel.pc = "rendered"
    /\ seatSel' = [seatSel EXCEPT !.pc = "decoded",
                        !.seat_row = seatInsert(NoId, seatSel.label).seat_row,
                        !.seat_col = seatInsert(NoId, seatSel.label).seat_col]
    /\ UNCHANGED <<showtimes, bookings, booking_seats, marketTables, marketUI>>

\* The next cell of the grid.
NextSeat ==
    /\ seatSel.pc = "decoded"
    /\ seatSel' = [seatSel EXCEPT !.pc = "grid", !.row = -1, !.col = -1,
                        !.label = <<>>, !.seat_row = -1, !.seat_col = -1]
    /\ UNCHANGED <<showtimes, bookings, booking_seats, marketTables, marketUI>>

SeatLabelNext ==
    \/ \E row \in 0..(MaxGridRows - 1), col \in 0..(MaxGridCols - 1) : RenderSeat(row, col)
    \/ DecodeSeat
    \/ NextSeat

SpecSeatLabel == SeatLabelInit /\ [][SeatLabelNext]_vars

\* C11: the label of cell (row, col) is the row-th capital letter followed by the
\* number col + 1, no other cell of the grid has the same label, and the decoding
\* of handleBooking gives back row and col.
C11_SeatLabelRoundTrip ==
    /\ seatSel.pc \in {"rendered", "decoded"} =>
            /\ seatSel.label[1] = 65 + seatSel.row
            /\ seatSel.label[1] \in 65..90
            /\ Tail(seatSel.label) = DecimalString(seatSel.col + 1)
            /\ \A r \in 0..(seatSel.rows - 1), c \in 0..(seatSel.cols - 1) :
                    getSeatLabel(r, c) = seatSel.label => r = seatSel.row /\ c = seatSel.col
    /\ seatSel.pc = "decoded" =>
            seatSel.seat_row = seatSel.row /\ seatSel.seat_col = seatSel.col

(***************************************************************************)
(* Marketplace: tables, row policies, trigger                              *)
(***************************************************************************)

\* Bound: orders rows the model lets the table grow to.
MaxOrders == 2

\* Accounts and user_roles.
Customer == "cu"
Retailer == "rt"
Role(u) ==
    CASE u \in {"cu", "c2"} -> "customer"
      [] u \in {"rt", "r2"} -> "retailer"
      [] OTHER -> "wholesaler"

\* A numeric column that is NULL.
NoPrice == -1

\* No products row (data: null).
NoProduct ==
    [id |-> NoId, seller_id |-> NoUser, name |-> "", price |-> 0,
     purchase_price |-> NoPrice, mrp |-> NoPrice, stock_quantity |-> 0]

\* The products row with the given id, as a select returns it.
ProductRow(id) ==
    [id |-> id, seller_id |-> products[id].seller_id, name |-> products[id].name,
     price |-> products[id].price, purchase_price |-> products[id].purchase_price,
     mrp |-> products[id].mrp, stock_quantity |-> products[id].stock_quantity]

\* Row policies of products.
\* "Customers can view retailer products", "Retailers can view all products",
\* "Wholesalers can view all products", "Sellers can view own products"
CanViewProduct(u, id) ==
    \/ Role(u) = "customer" /\ Role(products[id].seller_id) = "retailer"
    \/ Role(u) = "retailer"
    \/ Role(u) = "wholesaler"
    \/ products[id].seller_id = u
\* "Sellers can update own products"
CanUpdateProduct(u, id) == products[id].seller_id = u
\* "Sellers can insert own products"
CanInsertProduct(u, row) == row.seller_id = u

\* "Customers can create orders"
CanInsertOrder(u, row) == row.customer_id = u
\* "Users can create order items"
CanInsertOrderItem(u, row) ==
    \E o \in DOMAIN orders :
        o = row.order_id /\ (orders[o].customer_id = u \/ orders[o].seller_id = u)

\* update_product_stock fired twice for each inserted order_items row.
DoubleStockUpdate(tbl, rows) ==
    [id \in DOMAIN tbl |->
        IF \E r \in rows : r.product_id = id
        THEN [tbl[id] EXCEPT !.stock_quantity =
                @ - 2 * (CHOOSE r \in rows : r.product_id = id).quantity]
        ELSE tbl[id]]

\* Trigger update_stock_on_order: update_product_stock runs for each inserted
\* order_items row (a batch of the flows never names a product twice).
update_product_stock(tbl, rows) ==
    [id \in DOMAIN tbl |->
        IF \E r \in rows : r.product_id = id
        THEN [tbl[id] EXCEPT !.stock_quantity =
                @ - (CHOOSE r \in rows : r.product_id = id).quantity]
        ELSE tbl[id]]

\* The rows of a set as a sequence, by ascending id.
RECURSIVE ById(_)
ById(S) ==
    IF S = {} THEN <<>>
    ELSE LET m == CHOOSE r \in S : \A x \in S : r.id <= x.id
         IN <<m>> \o ById(S \ {m})

\* The rows of a cart table of the user, joined with products.
CartItemsIn(tbl, u) ==
    ById({[id |-> r.id, product_id |-> r.product_id, quantity |-> r.quantity,
           products |-> ProductRow(r.product_id)] :
                r \in {x \in tbl : x.user_id = u}})

\* fetchCartItems of CartSheet and of RetailerCart:
\* select(..., products (...)).eq("user_id", userId)
CartItemsOf(u) == CartItemsIn(cart, u)

(***************************************************************************)
(* Checkout: CheckoutDialog.handlePlaceOrder (customer) and                *)
(* RetailerCheckout.handleCheckout (retailer)                              *)
(***************************************************************************)

Sessions == {"customer", "retailer"}
CheckoutUser(s) ==
    CASE s = "customer" -> Customer
      [] s = "customer2" -> "c2"
      [] OTHER -> Retailer

\* No call of CartSheet.updateQuantity under way.
NoUpdate == [cartItemId |-> NoId, newQuantity |-> 0, productId |-> NoId]

\* The dialog before the cart was fetched.
ClosedCheckout ==
    [pc |-> "closed",
     cartItems |-> <<>>,        \* props.cartItems
     i |-> 0,                   \* customer: index of the item whose stock is checked
     todo |-> <<>>,             \* sellers whose order is still to be created
     order |-> NoId,            \* order / orderData of the current seller
     k |-> 0,                   \* retailer: index of the item in the seller's items
     product |-> NoProduct,     \* retailer: product
     existing |-> NoProduct,    \* retailer: existingRetailerProduct
     before |-> 0,              \* Len(orders) when the handler was started
     atStart |-> <<>>,          \* stock_quantity of every product at that time
     update |-> NoUpdate]       \* customer: the updateQuantity call past its checks

\* The stock_quantity column, by product id.
StockOf(tbl) == [id \in DOMAIN tbl |-> tbl[id].stock_quantity]

\* Object.entries(itemsBySeller): the seller ids in order of first appearance.
RECURSIVE SellerKeys(_, _)
SellerKeys(items, acc) ==
    IF items = <<>> THEN acc
    ELSE SellerKeys(Tail(items),
            IF Head(items).products.seller_id \in Range(acc) THEN acc
            ELSE Append(acc, Head(items).products.seller_id))

\* cartItems.reduce(...): the items of each seller, in cart order.
itemsBySeller(items) ==
    [sid \in Range(SellerKeys(items, <<>>)) |->
        SelectSeq(items, LAMBDA it : it.products.seller_id = sid)]

\* A reduce that adds the prices without the quantities.
RECURSIVE orderTotalOfPrices(_)
orderTotalOfPrices(items) ==
    IF items = <<>> THEN 0
    ELSE Head(items).products.price + orderTotalOfPrices(Tail(items))

\* items.reduce((sum, item) => sum + item.products.price * item.quantity, 0)
RECURSIVE orderTotal(_)
orderTotal(items) ==
    IF items = <<>> THEN 0
    ELSE Head(items).products.price * Head(items).quantity + orderTotal(Tail(items))

\* CartSheet.total and RetailerCart.totalAmount, the total the cart shows:
\* cartItems.reduce((sum, item) => sum + (item.products.price * item.quantity), 0)
RECURSIVE total(_)
total(cartItems) ==
    IF cartItems = <<>> THEN 0
    ELSE total(Tail(cartItems)) + Head(cartItems).products.price * Head(cartItems).quantity

\* An items.map that orders one unit of each item.
orderItemsOneEach(order_id, items) ==
    {[order_id |-> order_id, product_id |-> it.products.id,
      quantity |-> 1, price |-> it.products.price] : it \in Range(items)}

\* items.map((item) => ({ order_id, product_id, quantity, price }))
orderItems(order_id, items) ==
    {[order_id |-> order_id, product_id |-> it.products.id,
      quantity |-> it.quantity, price |-> it.products.price] : it \in Range(items)}

\* The items of the seller whose order is being created.
CurrentItems(s) == itemsBySeller(checkout[s].cartItems)[Head(checkout[s].todo)]

\* A catch block that cancels the orders the handler created before it failed.
OrdersCancelled(s) ==
    [o \in DOMAIN orders |->
        IF o > checkout[s].before /\ orders[o].customer_id = CheckoutUser(s)
        THEN [orders[o] EXCEPT !.status = "cancelled"]
        ELSE orders[o]]

\* The orders table after the catch block of either handler: the block only
\* reports, the rows inserted before the failure stay as they are.
OrdersAfterFailure(s) == orders

\* catch / finally of both handlers: toast.error, setLoading(false).  The dialog
\* stays open with the same cartItems; nothing that was inserted is taken back.
CheckoutFailed(s) ==
    [checkout EXCEPT ![s].pc = "form", ![s].i = 0, ![s].k = 0,
        ![s].todo = <<>>, ![s].order = NoId,
        ![s].product = NoProduct, ![s].existing = NoProduct]

\* fetchCartItems of the cart sheet (on open, and after a completed checkout);
\* "Proceed to Checkout" is rendered when the fetched cart is not empty.
FetchCartItems(s) ==
    /\ checkout[s].pc \in {"closed", "done"}
    /\ \E ok \in BOOLEAN :
        LET items == IF ok THEN CartItemsOf(CheckoutUser(s)) ELSE <<>>
        IN /\ checkout' = [checkout EXCEPT ![s] =
                    [ClosedCheckout EXCEPT !.cartItems = items,
                        !.pc = IF items # <<>> THEN "form" ELSE "closed"]]
           /\ response' = Answer(ok)
           /\ toast' = IF ok THEN "none" ELSE "error"
    /\ UNCHANGED <<exceptCheckout, marketTables>>

\* A stock check that only asks whether the product is in stock at all.
StockAboveZero(tbl, productId, quantity) ==
    tbl[productId].stock_quantity > 0

\* handlePlaceOrder: !(product.stock_quantity < item.quantity) for the row read.
StockAvailable(tbl, productId, quantity) ==
    tbl[productId].stock_quantity >= quantity

\* handlePlaceOrder: the stock check of one item.
handlePlaceOrderCheckStock(s) ==
    LET n == IF checkout[s].pc = "form" THEN 1 ELSE checkout[s].i
        item == checkout[s].cartItems[n]
    IN /\ checkout[s].pc \in {"form", "stock"}
       /\ \E ok \in BOOLEAN :
            LET found == ok /\ CanViewProduct(CheckoutUser(s), item.products.id)
                enough == found /\ StockAvailable(products, item.products.id, item.quantity)
            IN /\ checkout' =
                    IF ~enough THEN CheckoutFailed(s)
                    ELSE IF n < Len(checkout[s].cartItems)
                    THEN [checkout EXCEPT ![s].pc = "stock", ![s].i = n + 1,
                            ![s].before = IF n = 1 THEN Len(orders) ELSE @]
                    ELSE [checkout EXCEPT ![s].pc = "order", ![s].i = 0,
                            ![s].before = IF n = 1 THEN Len(orders) ELSE @,
                            ![s].todo = SellerKeys(checkout[s].cartItems, <<>>)]
               /\ response' = Answer(found)
               /\ toast' = IF enough THEN "none" ELSE "error"
       /\ UNCHANGED <<exceptCheckout, marketTables>>

\* handlePlaceOrder: the orders insert of the current seller.
handlePlaceOrderInsertOrder(s) ==
       /\ checkout[s].pc = "order"
       /\ Len(orders) < MaxOrders
       /\ \E ok \in BOOLEAN :
            LET row == [customer_id |-> CheckoutUser(s), seller_id |-> Head(checkout[s].todo),
                        total_amount |-> orderTotal(CurrentItems(s)), status |-> "pending"]
                done == ok /\ CanInsertOrder(CheckoutUser(s), row)
            IN /\ orders' = IF done THEN Append(orders, row) ELSE orders
               /\ checkout' = IF done
                    THEN [checkout EXCEPT ![s].pc = "items", ![s].order = Len(orders) + 1]
                    ELSE CheckoutFailed(s)
               /\ response' = Answer(done)
               /\ toast' = IF done THEN "none" ELSE "error"
       /\ UNCHANGED <<exceptCheckout, products, cart, cartIds, order_items>>

\* handlePlaceOrder: the order_items insert of the current seller; the trigger
\* update_stock_on_order runs in the same statement.
handlePlaceOrderInsertItems(s) ==
    LET rows == orderItems(checkout[s].order, CurrentItems(s))
    IN /\ checkout[s].pc = "items"
       /\ \E ok \in BOOLEAN :
            LET done == ok /\ \A r \in rows : CanInsertOrderItem(CheckoutUser(s), r)
            IN /\ order_items' = IF done THEN order_items \cup rows ELSE order_items
               /\ products' = IF done THEN update_product_stock(products, rows) ELSE products
               /\ checkout' = IF done
                    THEN [checkout EXCEPT ![s].todo = Tail(@), ![s].order = NoId,
                            ![s].pc = IF Tail(checkout[s].todo) = <<>> THEN "clear" ELSE "order"]
                    ELSE CheckoutFailed(s)
               /\ orders' = IF done THEN orders ELSE OrdersAfterFailure(s)
               /\ response' = Answer(done)
               /\ toast' = IF done THEN "none" ELSE "error"
       /\ UNCHANGED <<exceptCheckout, cart, cartIds>>

\* handlePlaceOrder: the cart delete, then the success toast and onSuccess.
handlePlaceOrderClearCart(s) ==
       /\ checkout[s].pc = "clear"
       /\ \E ok \in BOOLEAN :
            /\ cart' = IF ok THEN {r \in cart : r.user_id # CheckoutUser(s)} ELSE cart
            /\ checkout' = IF ok THEN [checkout EXCEPT ![s].pc = "done"]
                           ELSE CheckoutFailed(s)
            /\ orders' = IF ok THEN orders ELSE OrdersAfterFailure(s)
            /\ response' = Answer(ok)
            /\ toast' = IF ok THEN "success" ELSE "error"
       /\ UNCHANGED <<exceptCheckout, products, cartIds, order_items>>

\* Bound: products rows the model lets the table grow to.
MaxProducts == 7

\* A numeric(10,2) column storing the JavaScript product of a price (in hundredths)
\* and the factor num/den: rounded to the nearest hundredth.  On an exact half the
\* double may lie on either side of it.
RoundCents(num, den) ==
    LET q == num \div den
        r == num % den
    IN IF 2 * r < den THEN {q}
       ELSE IF 2 * r > den THEN {q + 1}
       ELSE {q, q + 1}

\* handleCheckout: the orders insert of the current seller.
handleCheckoutInsertOrder ==
    LET s == "retailer"
    IN /\ checkout[s].pc \in {"form", "order"}
       /\ Len(orders) < MaxOrders
       /\ \E ok \in BOOLEAN :
            LET start == checkout[s].pc = "form"
                todo == IF start THEN SellerKeys(checkout[s].cartItems, <<>>)
                        ELSE checkout[s].todo
                row == [customer_id |-> CheckoutUser(s), seller_id |-> Head(todo),
                        total_amount |-> orderTotal(itemsBySeller(checkout[s].cartItems)[Head(todo)]),
                        status |-> "pending"]
                done == ok /\ CanInsertOrder(CheckoutUser(s), row)
            IN /\ orders' = IF done THEN Append(orders, row) ELSE OrdersAfterFailure(s)
               /\ checkout' = IF done
                    THEN [checkout EXCEPT ![s].pc = "items", ![s].todo = todo,
                            ![s].order = Len(orders) + 1,
                            ![s].before = IF start THEN Len(orders) ELSE @,
                            ![s].atStart = IF start THEN StockOf(products) ELSE @]
                    ELSE CheckoutFailed(s)
               /\ response' = Answer(done)
               /\ toast' = IF done THEN "none" ELSE "error"
       /\ UNCHANGED <<exceptCheckout, products, cart, cartIds, order_items>>

\* handleCheckout: the order_items insert of the current seller (with the trigger).
handleCheckoutInsertItems ==
    LET s == "retailer"
        rows == orderItems(checkout[s].order, CurrentItems(s))
    IN /\ checkout[s].pc = "items"
       /\ \E ok \in BOOLEAN :
            LET done == ok /\ \A r \in rows : CanInsertOrderItem(CheckoutUser(s), r)
            IN /\ order_items' = IF done THEN order_items \cup rows ELSE order_items
               /\ products' = IF done THEN update_product_stock(products, rows) ELSE products
               /\ checkout' = IF done
                    THEN [checkout EXCEPT ![s].pc = "product", ![s].k = 1]
                    ELSE CheckoutFailed(s)
               /\ orders' = IF done THEN orders ELSE OrdersAfterFailure(s)
               /\ response' = Answer(done)
               /\ toast' = IF done THEN "none" ELSE "error"
       /\ UNCHANGED <<exceptCheckout, cart, cartIds>>

\* handleCheckout: the end of one turn of "for (const item of items)": the next
\* item, the next seller, or the cart delete.
NextItem(s) ==
    IF checkout[s].k < Len(CurrentItems(s))
    THEN [checkout EXCEPT ![s].pc = "product", ![s].k = @ + 1,
            ![s].product = NoProduct, ![s].existing = NoProduct]
    ELSE [checkout EXCEPT ![s].todo = Tail(@), ![s].order = NoId, ![s].k = 0,
            ![s].product = NoProduct, ![s].existing = NoProduct,
            ![s].pc = IF Tail(checkout[s].todo) = <<>> THEN "clear" ELSE "order"]

\* handleCheckout: select("*").eq("id", item.product_id).single(); the error is
\* not read, and without a product the item is skipped.
handleCheckoutSelectProduct ==
    LET s == "retailer"
        item == CurrentItems(s)[checkout[s].k]
    IN /\ checkout[s].pc = "product"
       /\ \E ok \in BOOLEAN :
            LET found == ok /\ CanViewProduct(CheckoutUser(s), item.product_id)
            IN /\ checkout' = IF found
                    THEN [checkout EXCEPT ![s].pc = "wstock",
                            ![s].product = ProductRow(item.product_id)]
                    ELSE NextItem(s)
               /\ response' = Answer(found)
               /\ toast' = "none"
       /\ UNCHANGED <<exceptCheckout, marketTables>>

\* handleCheckout: update({ stock_quantity: product.stock_quantity - item.quantity })
\* on the wholesaler's row; the result is not read.
handleCheckoutUpdateStock ==
    LET s == "retailer"
        item == CurrentItems(s)[checkout[s].k]
    IN /\ checkout[s].pc = "wstock"
       /\ \E ok \in BOOLEAN :
            /\ products' =
                IF ok /\ CanUpdateProduct(CheckoutUser(s), item.product_id)
                THEN [products EXCEPT ![item.product_id].stock_quantity =
                        checkout[s].product.stock_quantity - item.quantity]
                ELSE products
            /\ checkout' = [checkout EXCEPT ![s].pc = "existing"]
            /\ response' = Answer(ok)
            /\ toast' = "none"
       /\ UNCHANGED <<exceptCheckout, cart, cartIds, orders, order_items>>

\* The retailer's own products of a name: .eq("seller_id", user.id).eq("name", name)
OwnProductsNamed(u, name) ==
    {id \in DOMAIN products :
        products[id].seller_id = u /\ products[id].name = name /\ CanViewProduct(u, id)}

\* handleCheckout: the select of existingRetailerProduct with maybeSingle(): data is
\* null when no row matches, and also when the call fails or several rows match.
handleCheckoutSelectExisting ==
    LET s == "retailer"
        found == OwnProductsNamed(CheckoutUser(s), checkout[s].product.name)
    IN /\ checkout[s].pc = "existing"
       /\ \E ok \in BOOLEAN :
            LET one == ok /\ Cardinality(found) = 1
            IN /\ checkout' = [checkout EXCEPT ![s].pc = "retail",
                    ![s].existing = IF one THEN ProductRow(CHOOSE id \in found : TRUE)
                                    ELSE NoProduct]
               /\ response' = Answer(ok /\ Cardinality(found) <= 1)
               /\ toast' = "none"
       /\ UNCHANGED <<exceptCheckout, marketTables>>

\* A retailer's product row offered at the wholesaler's price, without markup.
RetailProductAtCost(u, product, quantity, price) ==
    [seller_id |-> u, name |-> product.name, price |-> product.price,
     purchase_price |-> product.price, mrp |-> product.mrp,
     stock_quantity |-> quantity]

\* handleCheckout: the retailer's product row inserted for a purchased item.
RetailProductOfCheckout(u, product, quantity, price) ==
    [seller_id |-> u, name |-> product.name, price |-> price,
     purchase_price |-> product.price, mrp |-> product.mrp,
     stock_quantity |-> quantity]

\* handleCheckout: the stock update of existingRetailerProduct, or the insert of a
\* new product at price: product.price * 1.2; the result is not read.
handleCheckoutRetailProduct ==
    LET s == "retailer"
        u == CheckoutUser(s)
        item == CurrentItems(s)[checkout[s].k]
        existing == checkout[s].existing
    IN /\ checkout[s].pc = "retail"
       /\ existing = NoProduct => Len(products) < MaxProducts
       /\ \E ok \in BOOLEAN, price \in RoundCents(checkout[s].product.price * 12, 10) :
            LET row == RetailProductOfCheckout(u, checkout[s].product, item.quantity, price)
            IN /\ products' =
                    IF existing # NoProduct
                    THEN IF ok /\ CanUpdateProduct(u, existing.id)
                         THEN [products EXCEPT ![existing.id].stock_quantity =
                                    existing.stock_quantity + item.quantity]
                         ELSE products
                    ELSE IF ok /\ CanInsertProduct(u, row)
                         THEN Append(products, row)
                         ELSE products
               /\ checkout' = NextItem(s)
               /\ response' = Answer(ok)
               /\ toast' = "none"
       /\ UNCHANGED <<exceptCheckout, cart, cartIds, orders, order_items>>

\* handleCheckout: the cart delete, then the success toast and onCheckoutComplete.
handleCheckoutClearCart ==
    LET s == "retailer"
    IN /\ checkout[s].pc = "clear"
       /\ \E ok \in BOOLEAN :
            /\ cart' = IF ok THEN {r \in cart : r.user_id # CheckoutUser(s)} ELSE cart
            /\ checkout' = IF ok THEN [checkout EXCEPT ![s].pc = "done"]
                           ELSE CheckoutFailed(s)
            /\ orders' = IF ok THEN orders ELSE OrdersAfterFailure(s)
            /\ response' = Answer(ok)
            /\ toast' = IF ok THEN "success" ELSE "error"
       /\ UNCHANGED <<exceptCheckout, products, cartIds, order_items>>

\* Bound: the largest quantity of a cart row in the initial carts.
MaxQuantity == 2

\* The catalogue before the flows run: two wholesalers' products, and the products
\* of two retailers (the retailer "rt" already carries "n1").  Prices in hundredths.
InitialProducts ==
    << [seller_id |-> "w1", name |-> "n1", price |-> 1000,
        purchase_price |-> NoPrice, mrp |-> NoPrice, stock_quantity |-> 5],
       [seller_id |-> "w2", name |-> "n2", price |-> 1001,
        purchase_price |-> NoPrice, mrp |-> 1500, stock_quantity |-> 5],
       [seller_id |-> "rt", name |-> "n1", price |-> 1200,
        purchase_price |-> 1000, mrp |-> 1300, stock_quantity |-> 3],
       [seller_id |-> "r2", name |-> "n3", price |-> 500,
        purchase_price |-> NoPrice, mrp |-> NoPrice, stock_quantity |-> 3],
       [seller_id |-> "rt", name |-> "n5", price |-> 700,
        purchase_price |-> NoPrice, mrp |-> NoPrice, stock_quantity |-> 3],
       [seller_id |-> "w1", name |-> "n4", price |-> 1005,
        purchase_price |-> NoPrice, mrp |-> NoPrice, stock_quantity |-> 2] >>

\* The cinema tables while the marketplace flows are looked at.
CinemaIdle ==
    /\ showtimes = [available_seats |-> InitialAvailableSeats, price |-> ShowtimePrice]
    /\ bookings = <<>>
    /\ booking_seats = {}
    /\ seatSel = [c \in Clients |-> ClosedClient]

\* The customer's cart holds retail products of two sellers, the retailer's cart
\* wholesale products of two sellers.
CheckoutInit ==
    /\ auth = <<>> /\ accounts = <<>>
    /\ CinemaIdle
    /\ products = InitialProducts
    /\ \E q3, q1 \in 1..MaxQuantity :
        cart = {[id |-> 1, user_id |-> Customer, product_id |-> 3, quantity |-> q3],
                [id |-> 2, user_id |-> Customer, product_id |-> 4, quantity |-> 1],
                [id |-> 3, user_id |-> Customer, product_id |-> 5, quantity |-> 1],
                [id |-> 4, user_id |-> Retailer, product_id |-> 1, quantity |-> q1],
                [id |-> 5, user_id |-> Retailer, product_id |-> 2, quantity |-> 1]}
    /\ cartIds = 5
    /\ orders = <<>>
    /\ order_items = {}
    /\ checkout = [s \in Sessions |-> ClosedCheckout]
    /\ buy = <<>> /\ priceDialog = <<>> /\ tabs = <<>> /\ retailerCart = <<>>
    /\ response = "none"
    /\ toast = "none"

CheckoutNext ==
    \/ \E s \in Sessions : FetchCartItems(s)
    \/ handlePlaceOrderCheckStock("customer")
    \/ handlePlaceOrderInsertOrder("customer")
    \/ handlePlaceOrderInsertItems("customer")
    \/ handlePlaceOrderClearCart("customer")
    \/ handleCheckoutInsertOrder
    \/ handleCheckoutInsertItems
    \/ handleCheckoutSelectProduct
    \/ handleCheckoutUpdateStock
    \/ handleCheckoutSelectExisting
    \/ handleCheckoutRetailProduct
    \/ handleCheckoutClearCart

SpecCheckout == CheckoutInit /\ [][CheckoutNext]_vars

(***************************************************************************)
(* Properties of the checkout flows                                        *)
(***************************************************************************)

\* The orders the running (or just completed) handler of a dialog has created.
NewOrders(s) ==
    {o \in DOMAIN orders :
        o > checkout[s].before /\ orders[o].customer_id = CheckoutUser(s)}

\* The order_items rows of an order, without the order id.
ItemsOfOrder(o) ==
    {[product_id |-> r.product_id, quantity |-> r.quantity, price |-> r.price] :
        r \in {x \in order_items : x.order_id = o}}

\* The cart items of a seller as (product, quantity, price).
CartItemsOfSeller(items, sid) ==
    {[product_id |-> it.product_id, quantity |-> it.quantity, price |-> it.products.price] :
        it \in {x \in Range(items) : x.products.seller_id = sid}}

\* C3: when a checkout of either dialog has completed (success toast shown), the
\* handler has created exactly one order for each seller of the cart items and
\* none else, the order_items of each are that seller's cart items with their
\* quantity and price, and the cart of the user is empty.
C3_OneOrderPerSeller ==
    \A s \in Sessions :
        checkout[s].pc = "done" =>
            LET items == checkout[s].cartItems
                sellers == {it.products.seller_id : it \in Range(items)}
            IN /\ \A sid \in sellers :
                    Cardinality({o \in NewOrders(s) : orders[o].seller_id = sid}) = 1
               /\ \A o \in NewOrders(s) :
                    /\ orders[o].seller_id \in sellers
                    /\ ItemsOfOrder(o) = CartItemsOfSeller(items, orders[o].seller_id)
               /\ {r \in cart : r.user_id = CheckoutUser(s)} = {}

\* C3 witness: the customer's checkout of a cart with two sellers, one of them with
\* two items, has completed with two new orders.
C3_CustomerCheckoutDone ==
    /\ checkout["customer"].pc = "done"
    /\ toast = "success"
    /\ Cardinality(NewOrders("customer")) = 2
    /\ \E o \in NewOrders("customer") : Cardinality(ItemsOfOrder(o)) = 2

\* A step in which the handler of dialog s fails after it has inserted an order.
FailsAfterOrder(s) ==
    /\ checkout[s].pc \in {"order", "items", "product", "wstock", "existing", "retail", "clear"}
    /\ NewOrders(s) # {}
    /\ checkout'[s].pc = "form"

\* C4: when a call of a checkout handler fails after the handler has inserted at
\* least one order, an error is reported and nothing is taken back: the orders and
\* order items inserted so far stay as they are, the cart is not cleared, and the
\* dialog is ready to be submitted again with the same cart items.
C4_NoRollback ==
    [][\A s \in Sessions :
        FailsAfterOrder(s) =>
            /\ orders' = orders
            /\ order_items' = order_items
            /\ cart' = cart
            /\ toast' = "error"
            /\ checkout'[s].cartItems = checkout[s].cartItems]_vars

\* C4 witness: after a failed attempt the checkout was submitted again, and the
\* seller's order of the failed attempt now exists twice; the cart still holds
\* the items.
C4_RetryDuplicates ==
    \E s \in Sessions : \E o1, o2 \in DOMAIN orders :
        /\ o1 <= checkout[s].before /\ o2 \in NewOrders(s)
        /\ orders[o1].customer_id = CheckoutUser(s)
        /\ orders[o1].seller_id = orders[o2].seller_id
        /\ ItemsOfOrder(o1) # {}
        /\ ItemsOfOrder(o1) = ItemsOfOrder(o2)
        /\ {r \in cart : r.user_id = CheckoutUser(s)} # {}

\* The quantity of a product among cart items (0 when it is not among them).
QuantityOrdered(items, id) ==
    IF \E it \in Range(items) : it.products.id = id
    THEN (CHOOSE it \in Range(items) : it.products.id = id).quantity
    ELSE 0

\* C5: in the customer checkout the stock of a product changes in one kind of step
\* only, the order_items insert, and that step lowers the stock of every product
\* of the inserted batch by exactly its ordered quantity (the trigger, once) and
\* leaves the other products alone.
C5_StockLoweredOnce ==
    [][LET s == "customer"
       IN IF checkout[s].pc = "items" /\ checkout'[s].pc \in {"order", "clear"}
          THEN \A id \in DOMAIN products :
                    products'[id].stock_quantity =
                        products[id].stock_quantity - QuantityOrdered(CurrentItems(s), id)
          ELSE checkout'[s] # checkout[s] => products' = products]_vars

\* C5 witness: the customer's checkout has completed while the retailer did
\* nothing, and every ordered product has its initial stock less the quantity.
C5_StockAfterCheckout ==
    /\ checkout["customer"].pc = "done"
    /\ checkout["retailer"].pc = "closed"
    /\ Len(orders) = 2
    /\ \A it \in Range(checkout["customer"].cartItems) :
            products[it.products.id].stock_quantity =
                InitialProducts[it.products.id].stock_quantity - it.quantity

\* C6: whenever the backend call of a step of the checkout flows returned an
\* error, the step showed an error toast.
C6_ErrorsSurfaced == response = "error" => toast = "error"

\* The sum of price times quantity over a set of order_items rows.
RECURSIVE SumOfItems(_)
SumOfItems(rows) ==
    IF rows = {} THEN 0
    ELSE LET r == CHOOSE x \in rows : TRUE
         IN r.price * r.quantity + SumOfItems(rows \ {r})

\* The sum of total_amount over a set of order ids.
RECURSIVE SumOfTotals(_)
SumOfTotals(ids) ==
    IF ids = {} THEN 0
    ELSE LET o == CHOOSE x \in ids : TRUE
         IN orders[o].total_amount + SumOfTotals(ids \ {o})

\* The orders whose handler is between the orders insert and the order_items insert.
OrdersAwaitingItems ==
    {checkout[s].order : s \in {x \in DOMAIN checkout : checkout[x].pc = "items"}}

\* When a checkout has completed, the totals of its orders add up to the total
\* its cart showed.
TotalsAddUpToCartTotal ==
    \A s \in DOMAIN checkout :
        checkout[s].pc = "done" =>
            SumOfTotals(NewOrders(s)) = total(checkout[s].cartItems)

\* C18 (as amended): the total_amount of every order that has order_items is the
\* sum of price times quantity over them (an order whose order_items insert
\* failed keeps its total_amount and has no items), and the totals of the orders
\* of a completed checkout add up to the total the cart showed.
C18_TotalsOfOrdersWithItems ==
    /\ \A o \in DOMAIN orders :
            ItemsOfOrder(o) # {} => orders[o].total_amount = SumOfItems(ItemsOfOrder(o))
    /\ TotalsAddUpToCartTotal

\* C18 as stated: the total_amount of every order (past its order_items insert)
\* is the sum of price times quantity over its order_items, and the totals of
\* the orders of a completed checkout add up to the total the cart showed.
C18_TotalsOfAllOrders ==
    /\ \A o \in DOMAIN orders \ OrdersAwaitingItems :
            orders[o].total_amount = SumOfItems(ItemsOfOrder(o))
    /\ TotalsAddUpToCartTotal

\* C18 witness: the customer's checkout of 2 units at 12.00, one at 5.00 and one
\* at 7.00 has completed with two orders, of 31.00 and 5.00.
C18_TwoOrdersOfThirtySix ==
    /\ checkout["customer"].pc = "done"
    /\ total(checkout["customer"].cartItems) = 3600
    /\ {orders[o].total_amount : o \in NewOrders("customer")} = {3100, 500}
    /\ \A o \in NewOrders("customer") : ItemsOfOrder(o) # {}

(***************************************************************************)
(* Two customers whose carts hold the same product                         *)
(***************************************************************************)

Shoppers == {"customer", "customer2"}

\* Both carts hold the retail product 3 (stock 3); the first cart also holds
\* product 5 of the same seller.
TwoCustomersInit ==
    /\ auth = <<>> /\ accounts = <<>>
    /\ CinemaIdle
    /\ products = InitialProducts
    /\ \E qa, qb \in 1..MaxQuantity :
        cart = {[id |-> 1, user_id |-> CheckoutUser("customer"), product_id |-> 3, quantity |-> qa],
                [id |-> 2, user_id |-> CheckoutUser("customer"), product_id |-> 5, quantity |-> 1],
                [id |-> 3, user_id |-> CheckoutUser("customer2"), product_id |-> 3, quantity |-> qb]}
    /\ cartIds = 3
    /\ orders = <<>>
    /\ order_items = {}
    /\ checkout = [s \in Shoppers |-> ClosedCheckout]
    /\ buy = <<>> /\ priceDialog = <<>> /\ tabs = <<>> /\ retailerCart = <<>>
    /\ response = "none"
    /\ toast = "none"

TwoCustomersNext ==
    \E s \in Shoppers :
        \/ FetchCartItems(s)
        \/ handlePlaceOrderCheckStock(s)
        \/ handlePlaceOrderInsertOrder(s)
        \/ handlePlaceOrderInsertItems(s)
        \/ handlePlaceOrderClearCart(s)

SpecTwoCustomers == TwoCustomersInit /\ [][TwoCustomersNext]_vars

\* C14: no product ever has a negative stock_quantity.
C14_StockNeverNegative ==
    \A id \in DOMAIN products : products[id].stock_quantity >= 0

\* The item whose stock a customer's dialog checks next.
ItemChecked(s) ==
    checkout[s].cartItems[IF checkout[s].pc = "form" THEN 1 ELSE checkout[s].i]

PriceInputs == {-100, 0, 900, 1000, 1200, 1300}
PriceFields == {<<>>} \cup {<<n>> : n \in PriceInputs}

\* Number.prototype.toString and parseFloat on the content of a price field: the
\* content is the empty sequence or holds the number it spells.
toString(n) == <<n>>
parseFloat(str) == IF str = <<>> THEN NaN ELSE str[1]
isNaN(x) == x = NaN
\* x || 0 for a number x
OrZero(x) == IF isNaN(x) THEN 0 ELSE x

\* useState("") of mrp and sellingPrice; no product selected yet.
ClosedPriceDialog ==
    [open |-> FALSE, product |-> NoProduct, mrp |-> <<>>, sellingPrice |-> <<>>]

\* const purchasePrice = product?.purchase_price || 0
purchasePrice == OrZero(priceDialog.product.purchase_price)
\* const newMrp = parseFloat(mrp) || 0, newSellingPrice = parseFloat(sellingPrice) || 0
newMrp == OrZero(parseFloat(priceDialog.mrp))
newSellingPrice == OrZero(parseFloat(priceDialog.sellingPrice))

\* disabled={newSellingPrice < purchasePrice || newSellingPrice > newMrp}
SubmitDisabled == newSellingPrice < purchasePrice \/ newSellingPrice > newMrp

\* The attributes of the two inputs: required, min={purchasePrice}.
FormValid ==
    /\ priceDialog.mrp # <<>> /\ priceDialog.sellingPrice # <<>>
    /\ parseFloat(priceDialog.mrp) >= purchasePrice
    /\ parseFloat(priceDialog.sellingPrice) >= purchasePrice

\* A handleSubmit without its own checks.
handleSubmitAcceptsAll(mrp, price) == TRUE

\* handleSubmit: the two early returns.
handleSubmitAccepts(mrp, price) ==
    /\ ~(isNaN(mrp) \/ isNaN(price) \/ mrp <= 0 \/ price <= 0)
    /\ ~(price > mrp)

\* The "Set Price" button of one of the retailer's products; the effect on
\* [product] fills the two fields.
OpenPriceDialog(id) ==
    /\ ~priceDialog.open
    /\ products[id].seller_id = Retailer
    /\ priceDialog' =
        [open |-> TRUE, product |-> ProductRow(id),
         mrp |-> IF products[id].mrp # NoPrice THEN toString(products[id].mrp)
                 ELSE toString(products[id].price),
         sellingPrice |-> toString(products[id].price)]
    /\ response' = "none" /\ toast' = "none"
    /\ UNCHANGED <<exceptPriceDialog, marketTables>>

\* onChange of the two inputs.
setMrp(str) ==
    /\ priceDialog.open
    /\ priceDialog' = [priceDialog EXCEPT !.mrp = str]
    /\ response' = "none" /\ toast' = "none"
    /\ UNCHANGED <<exceptPriceDialog, marketTables>>

setSellingPrice(str) ==
    /\ priceDialog.open
    /\ priceDialog' = [priceDialog EXCEPT !.sellingPrice = str]
    /\ response' = "none" /\ toast' = "none"
    /\ UNCHANGED <<exceptPriceDialog, marketTables>>

\* The form is submitted (the button is enabled and the inputs are valid):
\* handleSubmit, and through onUpdatePrice handleUpdatePrice.
handleSubmit ==
    LET mrp == parseFloat(priceDialog.mrp)
        price == parseFloat(priceDialog.sellingPrice)
        id == priceDialog.product.id
    IN /\ priceDialog.open
       /\ ~SubmitDisabled
       /\ FormValid
       /\ IF handleSubmitAccepts(mrp, price)
          THEN \E ok \in BOOLEAN :
                LET done == ok /\ CanUpdateProduct(Retailer, id)
                IN /\ products' = IF done
                        THEN [products EXCEPT ![id].mrp = mrp, ![id].price = price]
                        ELSE products
                   /\ response' = Answer(ok)
                   /\ toast' = IF ok THEN "success" ELSE "error"
                   /\ priceDialog' = [priceDialog EXCEPT !.open = FALSE]
          ELSE /\ response' = "none" /\ toast' = "none"
               /\ UNCHANGED <<products, priceDialog>>
       /\ UNCHANGED <<exceptPriceDialog, cart, cartIds, orders, order_items>>

\* The dialog is dismissed.
ClosePriceDialog ==
    /\ priceDialog.open
    /\ priceDialog' = [priceDialog EXCEPT !.open = FALSE]
    /\ response' = "none" /\ toast' = "none"
    /\ UNCHANGED <<exceptPriceDialog, marketTables>>

PriceInit ==
    /\ auth = <<>> /\ accounts = <<>>
    /\ CinemaIdle
    /\ products = InitialProducts
    /\ cart = {} /\ cartIds = 0 /\ orders = <<>> /\ order_items = {}
    /\ checkout = <<>> /\ buy = <<>> /\ tabs = <<>> /\ retailerCart = <<>>
    /\ priceDialog = ClosedPriceDialog
    /\ response = "none"
    /\ toast = "none"

PriceNext ==
    \/ \E id \in DOMAIN products : OpenPriceDialog(id)
    \/ \E str \in PriceFields : setMrp(str)
    \/ \E str \in PriceFields : setSellingPrice(str)
    \/ handleSubmit
    \/ ClosePriceDialog

SpecPrice == PriceInit /\ [][PriceNext]_vars

\* C7: a step issues a price update (a backend call is made) only while the typed
\* selling price lies between the purchase price of the dialog's product and the
\* typed MRP, both positive, and the update writes just these two values to that
\* product; a step that issues none leaves the products table unchanged.
C7_UpdateOnlyInRange ==
    [][LET mrp == parseFloat(priceDialog.mrp)
           price == parseFloat(priceDialog.sellingPrice)
           id == priceDialog.product.id
       IN IF response' # "none"
          THEN /\ purchasePrice <= price /\ price <= mrp
               /\ price > 0 /\ mrp > 0
               /\ products' \in {products,
                        [products EXCEPT ![id].mrp = mrp, ![id].price = price]}
          ELSE products' = products]_vars

\* C7 witness: an accepted submission has changed the price and the MRP of the
\* retailer's product bought at 10.00.
C7_PriceUpdated ==
    /\ toast = "success"
    /\ ~priceDialog.open
    /\ priceDialog.product.id = 3
    /\ products[3].price # InitialProducts[3].price
    /\ products[3].mrp # InitialProducts[3].mrp
    /\ products[3].purchase_price <= products[3].price
    /\ products[3].price <= products[3].mrp

(***************************************************************************)
(* Wholesale purchase: handleBuyFromWholesaler of the retailer dashboard   *)
(***************************************************************************)

\* Bound: orders rows up to which the model lets the buy dialog add one more.
MaxPurchases == 2

\* The buy dialog before a wholesale product is chosen: selectedProduct null,
\* buyQuantity "1".
ClosedBuy ==
    [pc |-> "closed", selectedProduct |-> NoProduct, buyQuantity |-> DecimalString(1),
     order |-> NoId, existing |-> NoProduct,
     atStart |-> <<>>]          \* stock_quantity of every product when the form was submitted

\* catch of handleBuyFromWholesaler: toast.error; the dialog stays as it is.
BuyFailed == [buy EXCEPT !.pc = "form", !.order = NoId, !.existing = NoProduct]

\* The "Buy" button of a product in the wholesaler list.
OpenBuyDialog(id) ==
    /\ buy.pc = "closed"
    /\ Role(products[id].seller_id) = "wholesaler"
    /\ CanViewProduct(Retailer, id)
    /\ buy' = [buy EXCEPT !.pc = "form", !.selectedProduct = ProductRow(id)]
    /\ response' = "none" /\ toast' = "none"
    /\ UNCHANGED <<exceptBuy, marketTables>>

\* onChange of the quantity input.
setBuyQuantity(q) ==
    /\ buy.pc = "form"
    /\ buy' = [buy EXCEPT !.buyQuantity = DecimalString(q)]
    /\ response' = "none" /\ toast' = "none"
    /\ UNCHANGED <<exceptBuy, marketTables>>

\* handleBuyFromWholesaler up to the stock update of the wholesaler's row.  The
\* form is submitted with a quantity within min="1" and max={stock_quantity}.
handleBuyUpdateStock ==
    LET quantity == parseInt(buy.buyQuantity)
        selectedProduct == buy.selectedProduct
    IN /\ buy.pc = "form"
       /\ quantity >= 1 /\ quantity <= selectedProduct.stock_quantity
       /\ IF selectedProduct.stock_quantity < quantity
          THEN /\ response' = "none" /\ toast' = "error"
               /\ UNCHANGED <<buy, products>>
          ELSE \E ok \in BOOLEAN :
                /\ products' =
                    IF ok /\ CanUpdateProduct(Retailer, selectedProduct.id)
                    THEN [products EXCEPT ![selectedProduct.id].stock_quantity =
                            selectedProduct.stock_quantity - quantity]
                    ELSE products
                /\ buy' = IF ok THEN [buy EXCEPT !.pc = "order", !.atStart = StockOf(products)]
                          ELSE BuyFailed
                /\ response' = Answer(ok)
                /\ toast' = IF ok THEN "none" ELSE "error"
       /\ UNCHANGED <<exceptBuy, cart, cartIds, orders, order_items>>

\* handleBuyFromWholesaler: the orders insert.
handleBuyInsertOrder ==
    LET quantity == parseInt(buy.buyQuantity)
        row == [customer_id |-> Retailer, seller_id |-> buy.selectedProduct.seller_id,
                total_amount |-> quantity * buy.selectedProduct.price,
                status |-> "completed"]
    IN /\ buy.pc = "order"
       /\ Len(orders) < MaxPurchases
       /\ \E ok \in BOOLEAN :
            LET done == ok /\ CanInsertOrder(Retailer, row)
            IN /\ orders' = IF done THEN Append(orders, row) ELSE orders
               /\ buy' = IF done THEN [buy EXCEPT !.pc = "item", !.order = Len(orders) + 1]
                         ELSE BuyFailed
               /\ response' = Answer(done)
               /\ toast' = IF done THEN "none" ELSE "error"
       /\ UNCHANGED <<exceptBuy, products, cart, cartIds, order_items>>

\* handleBuyFromWholesaler: the order_items insert (with the trigger).
handleBuyInsertItem ==
    LET row == [order_id |-> buy.order, product_id |-> buy.selectedProduct.id,
                quantity |-> parseInt(buy.buyQuantity),
                price |-> buy.selectedProduct.price]
    IN /\ buy.pc = "item"
       /\ \E ok \in BOOLEAN :
            LET done == ok /\ CanInsertOrderItem(Retailer, row)
            IN /\ order_items' = IF done THEN order_items \cup {row} ELSE order_items
               /\ products' = IF done THEN update_product_stock(products, {row}) ELSE products
               /\ buy' = IF done THEN [buy EXCEPT !.pc = "existing"] ELSE BuyFailed
               /\ response' = Answer(done)
               /\ toast' = IF done THEN "none" ELSE "error"
       /\ UNCHANGED <<exceptBuy, cart, cartIds, orders>>

\* handleBuyFromWholesaler: the select of existingProduct with maybeSingle(), by
\* seller, name and category (a name has one category here); the error is not read.
handleBuySelectExisting ==
    LET found == OwnProductsNamed(Retailer, buy.selectedProduct.name)
    IN /\ buy.pc = "existing"
       /\ \E ok \in BOOLEAN :
            LET one == ok /\ Cardinality(found) = 1
            IN /\ buy' = [buy EXCEPT !.pc = "retail",
                    !.existing = IF one THEN ProductRow(CHOOSE id \in found : TRUE)
                                 ELSE NoProduct]
               /\ response' = Answer(ok /\ Cardinality(found) <= 1)
               /\ toast' = "none"
       /\ UNCHANGED <<exceptBuy, marketTables>>

\* handleBuyFromWholesaler: the update of existingProduct or the insert of a new
\* product, at retailPrice = wholesalePrice * 1.3; then the success toast.
handleBuyRetailProduct ==
    LET quantity == parseInt(buy.buyQuantity)
        wholesalePrice == buy.selectedProduct.price
        existing == buy.existing
    IN /\ buy.pc = "retail"
       /\ existing = NoProduct => Len(products) < MaxProducts
       /\ \E ok \in BOOLEAN, retailPrice \in RoundCents(wholesalePrice * 13, 10) :
            LET row == [seller_id |-> Retailer, name |-> buy.selectedProduct.name,
                        price |-> retailPrice, purchase_price |-> wholesalePrice,
                        mrp |-> NoPrice, stock_quantity |-> quantity]
                done == IF existing # NoProduct
                        THEN ok /\ CanUpdateProduct(Retailer, existing.id)
                        ELSE ok /\ CanInsertProduct(Retailer, row)
            IN /\ products' =
                    IF ~done THEN products
                    ELSE IF existing # NoProduct
                    THEN [products EXCEPT
                            ![existing.id].stock_quantity = existing.stock_quantity + quantity,
                            ![existing.id].price = retailPrice,
                            ![existing.id].purchase_price = wholesalePrice]
                    ELSE Append(products, row)
               /\ buy' = IF ok THEN ClosedBuy ELSE BuyFailed
               /\ response' = Answer(ok)
               /\ toast' = IF ok THEN "success" ELSE "error"
       /\ UNCHANGED <<exceptBuy, cart, cartIds, orders, order_items>>

\* The retailer's cart holds a wholesale product the retailer does not carry yet;
\* the dashboard is open in another tab.
WholesaleInit ==
    /\ auth = <<>> /\ accounts = <<>>
    /\ CinemaIdle
    /\ products = InitialProducts
    /\ \E q2 \in 1..MaxQuantity :
        cart = {[id |-> 1, user_id |-> Retailer, product_id |-> 2, quantity |-> q2]}
    /\ cartIds = 1
    /\ orders = <<>>
    /\ order_items = {}
    /\ checkout = [s \in Sessions |-> ClosedCheckout]
    /\ buy = ClosedBuy
    /\ priceDialog = <<>> /\ tabs = <<>> /\ retailerCart = <<>>
    /\ response = "none"
    /\ toast = "none"

WholesaleNext ==
    \/ FetchCartItems("retailer")
    \/ handleCheckoutInsertOrder
    \/ handleCheckoutInsertItems
    \/ handleCheckoutSelectProduct
    \/ handleCheckoutUpdateStock
    \/ handleCheckoutSelectExisting
    \/ handleCheckoutRetailProduct
    \/ handleCheckoutClearCart
    \/ \E id \in DOMAIN products : OpenBuyDialog(id)
    \/ \E q \in 1..MaxQuantity : setBuyQuantity(q)
    \/ handleBuyUpdateStock
    \/ handleBuyInsertOrder
    \/ handleBuyInsertItem
    \/ handleBuySelectExisting
    \/ handleBuyRetailProduct

SpecWholesale == WholesaleInit /\ [][WholesaleNext]_vars

(***************************************************************************)
(* Properties of the wholesale purchase                                    *)
(***************************************************************************)

\* The price of the wholesale product that a retailer's product row of this name
\* was bought as (the wholesalers offer each name once).
WholesalePriceOf(name) ==
    products[CHOOSE w \in DOMAIN products :
        Role(products[w].seller_id) = "wholesaler" /\ products[w].name = name].price

\* price is num/den times the wholesale price, to the nearest hundredth.
IsRounded(price, wholesale, num, den) ==
    /\ 2 * (den * price - num * wholesale) <= den
    /\ 2 * (num * wholesale - den * price) <= den

\* C8 (as amended): a products row newly created by a wholesale purchase has
\* purchase_price equal to the wholesaler's price, and its price is that price
\* times 1.2 (handleCheckout) or times 1.3 (handleBuyFromWholesaler) rounded to
\* the hundredth by the numeric(10,2) column.
C8_RoundedMarkup ==
    [][\A id \in DOMAIN products' \ DOMAIN products :
        LET row == products'[id]
            wholesale == WholesalePriceOf(row.name)
        IN /\ row.seller_id = Retailer
           /\ row.purchase_price = wholesale
           /\ IF buy' # buy
              THEN IsRounded(row.price, wholesale, 13, 10)
              ELSE IsRounded(row.price, wholesale, 12, 10)]_vars

\* C8 as stated: the price of a newly created row is the wholesaler's price times
\* a factor between 1.2 and 1.3.
C8_FactorBetween ==
    [][\A id \in DOMAIN products' \ DOMAIN products :
        LET row == products'[id]
            wholesale == WholesalePriceOf(row.name)
        IN /\ row.purchase_price = wholesale
           /\ 12 * wholesale <= 10 * row.price
           /\ 10 * row.price <= 13 * wholesale]_vars

\* C8 witness: the checkout has created the retailer's row of the product bought
\* at 10.01, priced 12.01, which is less than 1.2 times 10.01.
C8_RoundedBelow ==
    \E id \in DOMAIN products :
        /\ id > Len(InitialProducts)
        /\ products[id].seller_id = Retailer
        /\ products[id].purchase_price = 1001
        /\ products[id].price = 1201
        /\ 10 * products[id].price < 12 * products[id].purchase_price

\* The table holds the transfer of quantity units of the wholesale product
\* productId (of the given name) to the retailer, counted from the stocks atStart:
\* the wholesaler's row is lower by quantity, and the retailer's row of that name
\* is higher by quantity, or is one new row of quantity units.
StockTransferred(tbl, atStart, productId, quantity, name) ==
    LET own == {id \in DOMAIN tbl : tbl[id].seller_id = Retailer /\ tbl[id].name = name}
        old == own \cap DOMAIN atStart
    IN /\ tbl[productId].stock_quantity = atStart[productId] - quantity
       /\ Cardinality(own) = 1
       /\ \A id \in own :
            tbl[id].stock_quantity =
                IF id \in old THEN atStart[id] + quantity ELSE quantity

\* C13: when handleCheckout or handleBuyFromWholesaler ends with its success
\* toast, every purchased item has been transferred: the wholesaler's stock is
\* lower by the item's quantity than when the handler started, and the retailer's
\* product of that name holds that many units more (a new row if there was none).
C13_StockTransferredExactly ==
    [][ /\ (checkout["retailer"].pc = "clear" /\ checkout'["retailer"].pc = "done") =>
            \A n \in DOMAIN checkout["retailer"].cartItems :
                LET item == checkout["retailer"].cartItems[n]
                IN StockTransferred(products', checkout["retailer"].atStart,
                        item.product_id, item.quantity, item.products.name)
        /\ (buy.pc = "retail" /\ buy'.pc = "closed") =>
                StockTransferred(products', buy.atStart, buy.selectedProduct.id,
                        parseInt(buy.buyQuantity), buy.selectedProduct.name)
      ]_vars

(***************************************************************************)
(* addToCart of the customer dashboard, the wishlist page and the product  *)
(* page, and removeItem of the cart sheet                                  *)
(***************************************************************************)

\* Bound: the quantity up to which the model lets addToCart raise a cart row.
MaxCartQuantity == 2

\* Bound: the number of cart rows the model lets the tabs insert in all.
MaxCartIds == 2

\* Browser tabs and the accounts signed in: one customer with two tabs, another
\* customer with one.
Tabs == {"t1", "t2", "t3"}
TabUser(t) == IF t = "t3" THEN "c2" ELSE "cu"

\* The retail products the tabs show.
Shown == {3, 4}

\* No cart row (data: null).
NoCartRow == [id |-> NoId, user_id |-> NoUser, product_id |-> NoId, quantity |-> 0]

IdleTab == [pc |-> "idle", productId |-> NoId, existingItem |-> NoCartRow]

\* A cart table that has only the row policy, no constraint on (user_id, product_id).
CartInsertUnconstrained(u, row) == row.user_id = u

\* What the schema demands of a row inserted into cart: "Users can insert to own
\* cart" and the constraint cart_user_id_product_id_key UNIQUE (user_id, product_id).
CartInsertAllowed(u, row) ==
    /\ row.user_id = u
    /\ ~\E r \in cart : r.user_id = row.user_id /\ r.product_id = row.product_id

\* addToCart: the select of existingItem (data is null when the call fails).
addToCartSelect(t, productId) ==
    /\ tabs[t].pc = "idle"
    /\ \E ok \in BOOLEAN :
        LET found == {r \in cart : r.user_id = TabUser(t) /\ r.product_id = productId}
        IN /\ tabs' = [tabs EXCEPT ![t] =
                [pc |-> "write", productId |-> productId,
                 existingItem |-> IF ok /\ Cardinality(found) = 1
                                  THEN CHOOSE r \in found : TRUE ELSE NoCartRow]]
           /\ response' = Answer(ok /\ Cardinality(found) <= 1)
           /\ toast' = "none"
    /\ UNCHANGED <<exceptTabs, marketTables>>

\* addToCart: the update of existingItem to quantity + 1, or the insert of a row
\* of quantity 1; then the success toast, or the error toast of the catch block.
\* (limit: the quantity up to which the model follows the row.)
addToCartWriteUpTo(t, limit) ==
    LET u == TabUser(t)
        existingItem == tabs[t].existingItem
        row == [id |-> cartIds + 1, user_id |-> u,
                product_id |-> tabs[t].productId, quantity |-> 1]
    IN /\ tabs[t].pc = "write"
       /\ existingItem.quantity < limit
       /\ existingItem = NoCartRow => cartIds < MaxCartIds
       /\ \E ok \in BOOLEAN :
            /\ IF existingItem # NoCartRow
               THEN /\ cart' = IF ok
                        THEN {IF r.id = existingItem.id /\ r.user_id = u
                              THEN [r EXCEPT !.quantity = existingItem.quantity + 1]
                              ELSE r : r \in cart}
                        ELSE cart
                    /\ cartIds' = cartIds
                    /\ response' = Answer(ok)
               ELSE /\ cart' = IF ok /\ CartInsertAllowed(u, row)
                               THEN cart \cup {row} ELSE cart
                    /\ cartIds' = IF ok /\ CartInsertAllowed(u, row)
                                  THEN cartIds + 1 ELSE cartIds
                    /\ response' = IF ok /\ ~CartInsertAllowed(u, row)
                                   THEN "duplicate key" ELSE Answer(ok)
            /\ toast' = IF response' = "ok" THEN "success" ELSE "error"
            /\ tabs' = [tabs EXCEPT ![t] = IdleTab]
       /\ UNCHANGED <<exceptTabs, products, orders, order_items>>

\* addToCart's write, for rows up to the bound of the model.
addToCartWrite(t) == addToCartWriteUpTo(t, MaxCartQuantity)

\* CartSheet.removeItem of one of the user's rows, from an idle tab.
removeItem(t, cartItemId) ==
    /\ tabs[t].pc = "idle"
    /\ \E r \in cart : r.id = cartItemId /\ r.user_id = TabUser(t)
    /\ \E ok \in BOOLEAN :
        /\ cart' = IF ok THEN {r \in cart : r.id # cartItemId} ELSE cart
        /\ response' = Answer(ok)
        /\ toast' = IF ok THEN "success" ELSE "error"
    /\ UNCHANGED <<exceptTabs, tabs, products, cartIds, orders, order_items>>

AddToCartInit ==
    /\ auth = <<>> /\ accounts = <<>>
    /\ CinemaIdle
    /\ products = InitialProducts
    /\ cart = {} /\ cartIds = 0 /\ orders = <<>> /\ order_items = {}
    /\ checkout = <<>> /\ buy = <<>> /\ priceDialog = <<>> /\ retailerCart = <<>>
    /\ tabs = [t \in Tabs |-> IdleTab]
    /\ response = "none"
    /\ toast = "none"

AddToCartNext ==
    \E t \in Tabs :
        \/ \E productId \in Shown : addToCartSelect(t, productId)
        \/ addToCartWrite(t)
        \/ \E cartItemId \in 1..cartIds : removeItem(t, cartItemId)

SpecAddToCart == AddToCartInit /\ [][AddToCartNext]_vars

\* C9: the cart table never holds two rows of the same user and product.
C9_OneRowPerUserProduct ==
    \A r1, r2 \in cart :
        (r1.user_id = r2.user_id /\ r1.product_id = r2.product_id) => r1.id = r2.id

\* C9 witness: two tabs of a user ran addToCart for a product at the same time,
\* both found no row, and the second insert was rejected by the constraint; the
\* cart holds the one row of quantity 1.
C9_SecondInsertRejected ==
    /\ response = "duplicate key"
    /\ toast = "error"
    /\ \E r \in cart : r.user_id = "cu" /\ r.product_id = 3 /\ r.quantity = 1
    /\ tabs["t1"].pc = "idle" /\ tabs["t2"].pc = "idle"

(***************************************************************************)
(* CartSheet.updateQuantity next to addToCart                              *)
(***************************************************************************)

\* Bound: the quantity up to which the model lets addToCart raise a cart row here.
MaxAddQuantity == 6

\* updateQuantity: "Check if new quantity exceeds max limit (5 products)"
MaxPerItem == 5

\* updateQuantity(item.id, item.quantity + delta, item.products.id, ...) from the
\* Minus or the Plus button of a rendered item: the early return, the select of
\* the product's stock_quantity and the two checks.
CartSheetUpdateQuantityCheck(s, n, delta) ==
    LET item == checkout[s].cartItems[n]
        newQuantity == item.quantity + delta
        productId == item.products.id
    IN /\ checkout[s].pc = "form"
       /\ n \in DOMAIN checkout[s].cartItems
       /\ IF newQuantity < 1
          THEN /\ response' = "none" /\ toast' = "none"
               /\ checkout' = checkout
          ELSE \E ok \in BOOLEAN :
                LET found == ok /\ CanViewProduct(CheckoutUser(s), productId)
                    inStock == found /\ ~(newQuantity > products[productId].stock_quantity)
                    passed == inStock /\ ~(newQuantity > MaxPerItem)
                IN /\ response' = Answer(found)
                   /\ toast' = IF passed THEN "none" ELSE "error"
                   /\ checkout' = IF passed
                        THEN [checkout EXCEPT ![s].pc = "quantity",
                                ![s].update = [cartItemId |-> item.id,
                                               newQuantity |-> newQuantity,
                                               productId |-> productId]]
                        ELSE checkout
       /\ UNCHANGED <<exceptCheckout, marketTables>>

\* updateQuantity: the cart update, and the fetchCartItems() after a successful one.
CartSheetUpdateQuantityWrite(s) ==
    LET u == CheckoutUser(s)
        call == checkout[s].update
    IN /\ checkout[s].pc = "quantity"
       /\ \E ok, refetched \in BOOLEAN :
            /\ cart' = IF ok
                 THEN {IF r.id = call.cartItemId /\ r.user_id = u
                       THEN [r EXCEPT !.quantity = call.newQuantity] ELSE r : r \in cart}
                 ELSE cart
            /\ checkout' = [checkout EXCEPT ![s].pc = "form", ![s].update = NoUpdate,
                    ![s].cartItems = IF ok /\ refetched THEN CartItemsIn(cart', u) ELSE @]
            /\ response' = Answer(ok /\ refetched)
            /\ toast' = IF ok /\ refetched THEN "none" ELSE "error"
       /\ UNCHANGED <<exceptCheckout, products, cartIds, orders, order_items>>

\* The sheet is closed (and fetches the cart again when it is opened).
CloseCartSheet(s) ==
    /\ checkout[s].pc = "form"
    /\ checkout' = [checkout EXCEPT ![s] = ClosedCheckout]
    /\ response' = "none" /\ toast' = "none"
    /\ UNCHANGED <<exceptCheckout, marketTables>>

\* The customer's cart holds product 3 in a quantity within the limit; the
\* product's stock is 3 or is above the limit.  The customer has the cart sheet
\* and a product list open.
CartSheetInit ==
    /\ auth = <<>> /\ accounts = <<>>
    /\ CinemaIdle
    /\ \E stock \in {3, MaxAddQuantity} :
        products = [InitialProducts EXCEPT ![3].stock_quantity = stock]
    /\ \E q \in 1..MaxPerItem :
        cart = {[id |-> 1, user_id |-> Customer, product_id |-> 3, quantity |-> q]}
    /\ cartIds = 1
    /\ orders = <<>> /\ order_items = {}
    /\ checkout = [s \in {"customer"} |-> ClosedCheckout]
    /\ tabs = [t \in Tabs |-> IdleTab]
    /\ buy = <<>> /\ priceDialog = <<>> /\ retailerCart = <<>>
    /\ response = "none"
    /\ toast = "none"

CartSheetNext ==
    \/ FetchCartItems("customer")
    \/ CloseCartSheet("customer")
    \/ \E n \in 1..Len(checkout["customer"].cartItems), delta \in {-1, 1} :
            CartSheetUpdateQuantityCheck("customer", n, delta)
    \/ CartSheetUpdateQuantityWrite("customer")
    \/ addToCartSelect("t1", 3)
    \/ addToCartWriteUpTo("t1", MaxAddQuantity)

SpecCartSheet == CartSheetInit /\ [][CartSheetNext]_vars

\* C19: no cart row of a customer ever has a quantity above 5, and a write of
\* updateQuantity sets the row to a newQuantity with 1 <= newQuantity <= 5 that is
\* not above the product's stock.
C19_AtMostFivePerItem ==
    [][ /\ \A r \in cart' : r.quantity <= 5
        /\ \A s \in DOMAIN checkout :
            (checkout[s].pc = "quantity" /\ cart' # cart) =>
                LET call == checkout[s].update
                IN /\ call.newQuantity >= 1 /\ call.newQuantity <= 5
                   /\ call.newQuantity <= products[call.productId].stock_quantity
                   /\ \A r \in cart' : r.id = call.cartItemId => r.quantity = call.newQuantity
      ]_vars

(***************************************************************************)
(* addToCart of one product from two tabs of one customer                  *)
(***************************************************************************)

\* The two tabs of the customer "cu".
TabsOfCustomer == {t \in Tabs : TabUser(t) = Customer}

\* The quantity of the user's cart row of the product; 0 when there is no row.
CartQuantity(tbl, u, productId) ==
    LET found == {r \in tbl : r.user_id = u /\ r.product_id = productId}
    IN IF found = {} THEN 0 ELSE (CHOOSE r \in found : TRUE).quantity

\* The customer's cart is empty; both tabs show product 3.
AddCountInit ==
    /\ auth = <<>> /\ accounts = <<>>
    /\ CinemaIdle
    /\ products = InitialProducts
    /\ cart = {} /\ cartIds = 0 /\ orders = <<>> /\ order_items = {}
    /\ checkout = <<>> /\ buy = <<>> /\ priceDialog = <<>> /\ retailerCart = <<>>
    /\ tabs = [t \in TabsOfCustomer |-> IdleTab]
    /\ response = "none"
    /\ toast = "none"

AddCountNext ==
    \E t \in TabsOfCustomer :
        \/ addToCartSelect(t, 3)
        \/ addToCartWriteUpTo(t, MaxAddQuantity)

SpecAddCount == AddCountInit /\ [][AddCountNext]_vars

\* C20: every addToCart that reports success ("Added to cart!") raises the
\* quantity of the user's cart row of the product by one, so that after n of
\* them, in any interleaving of the tabs, the quantity is n.
C20_EveryAddCounted ==
    [][ \A t \in DOMAIN tabs :
            (tabs[t].pc = "write" /\ tabs'[t].pc = "idle" /\ toast' = "success") =>
                CartQuantity(cart', TabUser(t), tabs[t].productId)
                    = CartQuantity(cart, TabUser(t), tabs[t].productId) + 1
      ]_vars

(***************************************************************************)
(* RetailerCart: fetchCartItems and updateQuantity                         *)
(***************************************************************************)

\* Wholesale products priced at both sides of every tier limit (hundredths), each
\* with a stock of 101.
TierPrices == <<9999, 10000, 79999, 80000, 119999, 120000, 199999, 200000, 699999, 700000>>
TierProducts ==
    [n \in DOMAIN TierPrices |->
        [seller_id |-> "w1", name |-> "n1", price |-> TierPrices[n],
         purchase_price |-> NoPrice, mrp |-> NoPrice, stock_quantity |-> 101]]

\* Quantities of the retailer's cart row before the flows run.
TierQuantities == {1, 2, 4, 5, 9, 10, 19, 20, 49, 50, 99, 100, 101}

\* No call of updateQuantity yet (since the last fetch).
NoCall == [itemId |-> NoId, newQuantity |-> 0, price |-> 0]

\* updateQuantity with one minimum for every price.
minQuantityFlat(price) == 1

\* updateQuantity: "Calculate minimum based on price" (price in hundredths).
minQuantity(price) ==
    IF price < 10000 THEN 100
    ELSE IF price < 80000 THEN 50
    ELSE IF price < 120000 THEN 20
    ELSE IF price < 200000 THEN 10
    ELSE IF price < 700000 THEN 5
    ELSE 1

\* RetailerCart.fetchCartItems (on mount and when cartCount changes).
fetchCartItems ==
    /\ \E ok \in BOOLEAN :
        /\ retailerCart' = IF ok
                THEN [cartItems |-> CartItemsOf(Retailer), last |-> NoCall]
                ELSE [retailerCart EXCEPT !.last = NoCall]
        /\ response' = Answer(ok)
        /\ toast' = IF ok THEN "none" ELSE "error"
    /\ UNCHANGED <<exceptRetailerCart, marketTables>>

\* updateQuantity(item.id, item.quantity + delta, item.products.price) from the
\* Minus or the Plus button of a rendered item (Plus is disabled at the stock),
\* with the fetchCartItems() that follows a successful update.
updateQuantity(n, delta) ==
    LET item == retailerCart.cartItems[n]
        newQuantity == item.quantity + delta
        price == item.products.price
        call == [itemId |-> item.id, newQuantity |-> newQuantity, price |-> price]
    IN /\ n \in DOMAIN retailerCart.cartItems
       /\ delta = 1 => ~(item.quantity >= item.products.stock_quantity)
       /\ IF newQuantity < 1
          THEN /\ retailerCart' = [retailerCart EXCEPT !.last = call]
               /\ response' = "none" /\ toast' = "none"
               /\ cart' = cart
          ELSE IF newQuantity < minQuantity(price)
          THEN /\ retailerCart' = [retailerCart EXCEPT !.last = call]
               /\ response' = "none" /\ toast' = "error"
               /\ cart' = cart
          ELSE \E ok, refetched \in BOOLEAN :
               /\ cart' = IF ok
                    THEN {IF r.id = item.id /\ r.user_id = Retailer
                          THEN [r EXCEPT !.quantity = newQuantity] ELSE r : r \in cart}
                    ELSE cart
               /\ retailerCart' = IF ok /\ refetched
                    THEN [cartItems |-> CartItemsIn(cart', Retailer), last |-> call]
                    ELSE [retailerCart EXCEPT !.last = call]
               /\ response' = Answer(ok /\ refetched)
               /\ toast' = IF ok /\ refetched THEN "none" ELSE "error"
       /\ UNCHANGED <<exceptRetailerCart, products, cartIds, orders, order_items>>

\* The retailer's cart holds one wholesale product, in some quantity.
RetailerCartInit ==
    /\ auth = <<>> /\ accounts = <<>>
    /\ CinemaIdle
    /\ products = TierProducts
    /\ \E p \in DOMAIN TierProducts, q \in TierQuantities :
        cart = {[id |-> 1, user_id |-> Retailer, product_id |-> p, quantity |-> q]}
    /\ cartIds = 1
    /\ orders = <<>> /\ order_items = {}
    /\ checkout = <<>> /\ buy = <<>> /\ priceDialog = <<>> /\ tabs = <<>>
    /\ retailerCart = [cartItems |-> <<>>, last |-> NoCall]
    /\ response = "none"
    /\ toast = "none"

RetailerCartNext ==
    \/ fetchCartItems
    \/ \E n \in 1..Len(retailerCart.cartItems), delta \in {-1, 1} : updateQuantity(n, delta)

SpecRetailerCart == RetailerCartInit /\ [][RetailerCartNext]_vars

\* The tier minimum as the claim lists it (price in hundredths).
TierMinimum(price) ==
    CASE price < 10000 -> 100
      [] price >= 10000 /\ price < 80000 -> 50
      [] price >= 80000 /\ price < 120000 -> 20
      [] price >= 120000 /\ price < 200000 -> 10
      [] price >= 200000 /\ price < 700000 -> 5
      [] OTHER -> 1

\* The cart with the row of a call set to the call's quantity.
CartWritten(call) ==
    {IF r.id = call.itemId THEN [r EXCEPT !.quantity = call.newQuantity] ELSE r : r \in cart}

\* C10 (as amended): a call of updateQuantity changes the cart only by writing
\* newQuantity to the row of the item, and only if newQuantity is at least the tier
\* minimum of the price; below the minimum the cart is unchanged, and an error
\* toast is shown exactly when newQuantity is at least 1 (a call with
\* newQuantity < 1 returns without a message).
C10_TierMinimum ==
    [][LET call == retailerCart'.last
       IN call # NoCall =>
            IF call.newQuantity >= TierMinimum(call.price)
            THEN cart' \in {cart, CartWritten(call)}
            ELSE /\ cart' = cart
                 /\ toast' = "error" <=> call.newQuantity >= 1]_vars

\* C10 as stated: below the tier minimum the cart is unchanged and an error is shown.
C10_ErrorBelowMinimum ==
    [][LET call == retailerCart'.last
       IN call # NoCall =>
            IF call.newQuantity >= TierMinimum(call.price)
            THEN cart' \in {cart, CartWritten(call)}
            ELSE /\ cart' = cart
                 /\ toast' = "error"]_vars

\* C10 witness: the Minus button of an item of quantity 1 called updateQuantity
\* with 0, below every minimum: the row is unchanged and no toast is shown.
C10_SilentBelowOne ==
    /\ retailerCart.last # NoCall
    /\ retailerCart.last.newQuantity = 0
    /\ retailerCart.last.newQuantity < TierMinimum(retailerCart.last.price)
    /\ toast = "none"
    /\ \E r \in cart : r.id = retailerCart.last.itemId /\ r.quantity = 1


(***************************************************************************)
(* Auth page: handleSignUp and handleSignIn                                *)
(***************************************************************************)

exceptAuth == <<cinemaVars, marketTables, checkout, buy, priceDialog, tabs, retailerCart>>

\* type UserRole
UserRoles == {"customer", "retailer", "wholesaler"}

\* What the user types into the email and the city inputs ("" is the empty input).
EmailInputs == {"", "a@x", "b@x"}
CityInputs == {"", "Pune"}

\* No user_roles row of the account yet.
NoRole == "none"

\* The component after useState(...): the tab is the Tabs' defaultValue.
NewAuth ==
    [pc |-> "form",             \* form | signUp | role | city | signIn | home
     tab |-> "signin",
     loading |-> FALSE,
     email |-> "",
     selectedRole |-> "customer",
     city |-> "",
     showOtpStep |-> FALSE,
     showCityStep |-> FALSE,
     user |-> NoId,             \* data.user.id of the signUp answer
     shown |-> {}]              \* the steps of the sign-up form rendered so far

\* handleSignUp, second test: the roles with a city step, as a test on customer only.
NeedsCityCustomerOnly(role) == role = "customer"

\* handleSignUp: selectedRole === "customer" || selectedRole === "retailer"
NeedsCity(role) == role = "customer" \/ role = "retailer"

\* The step of the sign-up form that the flags render.
Rendered(a) ==
    IF a.showCityStep THEN "city" ELSE IF a.showOtpStep THEN "otp" ELSE "details"

\* The render after a state change: the sign-up tab shows the step of the flags.
Show(a) ==
    [a EXCEPT !.shown = IF a.tab = "signup" /\ a.pc # "home"
                        THEN @ \cup {Rendered(a)} ELSE @]

\* The `required` inputs of the rendered step are filled in.
SignUpFormValid(a) ==
    CASE Rendered(a) = "details" -> a.email # ""
      [] Rendered(a) = "city" -> a.city # ""
      [] OTHER -> TRUE

\* A click on a TabsTrigger.
SelectTab(t) ==
    /\ auth.pc = "form"
    /\ auth.tab # t
    /\ auth' = Show([auth EXCEPT !.tab = t])
    /\ response' = "none" /\ toast' = "none"
    /\ UNCHANGED <<exceptAuth, accounts>>

\* setEmail: the input of the sign-in form, or of the first step of the sign-up form.
SetEmail(e) ==
    /\ auth.pc = "form"
    /\ auth.tab = "signin" \/ ~auth.showOtpStep
    /\ auth' = [auth EXCEPT !.email = e]
    /\ response' = "none" /\ toast' = "none"
    /\ UNCHANGED <<exceptAuth, accounts>>

\* setSelectedRole: the RadioGroup of the first step.
SetSelectedRole(role) ==
    /\ auth.pc = "form"
    /\ auth.tab = "signup" /\ ~auth.showOtpStep
    /\ auth' = [auth EXCEPT !.selectedRole = role]
    /\ response' = "none" /\ toast' = "none"
    /\ UNCHANGED <<exceptAuth, accounts>>

\* setCity: the input of the city step.
SetCity(c) ==
    /\ auth.pc = "form"
    /\ auth.tab = "signup" /\ auth.showCityStep
    /\ auth' = [auth EXCEPT !.city = c]
    /\ response' = "none" /\ toast' = "none"
    /\ UNCHANGED <<exceptAuth, accounts>>

\* handleSignUp up to its first await: a submit of the sign-up form (the button
\* is disabled while loading).
handleSignUp ==
    /\ auth.pc = "form"
    /\ auth.tab = "signup" /\ ~auth.loading
    /\ SignUpFormValid(auth)
    /\ auth' = IF ~auth.showOtpStep
               THEN Show([auth EXCEPT !.showOtpStep = TRUE, !.loading = FALSE])
               ELSE IF ~auth.showCityStep /\ NeedsCity(auth.selectedRole)
               THEN Show([auth EXCEPT !.showCityStep = TRUE, !.loading = FALSE])
               ELSE [auth EXCEPT !.pc = "signUp", !.loading = TRUE]
    /\ response' = "none" /\ toast' = "none"
    /\ UNCHANGED <<exceptAuth, accounts>>

\* handleSignUp: supabase.auth.signUp and what follows its answer.  The backend
\* refuses an empty or a registered email; data.user may be null.
handleSignUpCreate ==
    /\ auth.pc = "signUp"
    /\ \E ok, hasUser \in BOOLEAN :
        LET registered == \E n \in DOMAIN accounts : accounts[n].email = auth.email
            created == ok /\ hasUser /\ auth.email # "" /\ ~registered
            error == ~ok \/ auth.email = "" \/ registered
        IN /\ accounts' = IF created
                THEN Append(accounts, [email |-> auth.email, role |-> NoRole, city |-> ""])
                ELSE accounts
           /\ auth' = IF created
                THEN [auth EXCEPT !.pc = "role", !.user = Len(accounts) + 1]
                ELSE [auth EXCEPT !.pc = "form", !.loading = FALSE]
           /\ response' = Answer(~error)
           /\ toast' = IF error THEN "error" ELSE "none"
    /\ UNCHANGED exceptAuth

\* handleSignUp: the insert into user_roles and what follows its answer.
handleSignUpInsertRole ==
    /\ auth.pc = "role"
    /\ \E ok \in BOOLEAN :
        LET withCity == NeedsCity(auth.selectedRole) /\ auth.city # ""
        IN /\ accounts' = IF ok
                THEN [accounts EXCEPT ![auth.user].role = auth.selectedRole]
                ELSE accounts
           /\ auth' = IF ~ok THEN [auth EXCEPT !.pc = "form", !.loading = FALSE]
                      ELSE IF withCity THEN [auth EXCEPT !.pc = "city"]
                      ELSE [auth EXCEPT !.pc = "home", !.loading = FALSE]
           /\ response' = Answer(ok)
           /\ toast' = IF ~ok THEN "error" ELSE IF withCity THEN "none" ELSE "success"
    /\ UNCHANGED exceptAuth

\* handleSignUp: the update of profiles.city (its error is only logged), the
\* success toast and navigate("/").
handleSignUpUpdateCity ==
    /\ auth.pc = "city"
    /\ \E ok \in BOOLEAN :
        /\ accounts' = IF ok THEN [accounts EXCEPT ![auth.user].city = auth.city]
                       ELSE accounts
        /\ response' = Answer(ok)
    /\ auth' = [auth EXCEPT !.pc = "home", !.loading = FALSE]
    /\ toast' = "success"
    /\ UNCHANGED exceptAuth

\* handleSignIn up to its await: a submit of the sign-in form.
handleSignIn ==
    /\ auth.pc = "form"
    /\ auth.tab = "signin" /\ ~auth.loading
    /\ auth.email # ""
    /\ auth' = [auth EXCEPT !.pc = "signIn", !.loading = TRUE]
    /\ response' = "none" /\ toast' = "none"
    /\ UNCHANGED <<exceptAuth, accounts>>

\* handleSignIn: signInWithPassword and what follows its answer.
handleSignInAnswer ==
    /\ auth.pc = "signIn"
    /\ \E ok \in BOOLEAN :
        LET signedIn == ok /\ \E n \in DOMAIN accounts : accounts[n].email = auth.email
        IN /\ auth' = IF signedIn THEN [auth EXCEPT !.pc = "home", !.loading = FALSE]
                      ELSE [auth EXCEPT !.pc = "form", !.loading = FALSE]
           /\ response' = Answer(signedIn)
           /\ toast' = IF signedIn THEN "success" ELSE "error"
    /\ UNCHANGED <<exceptAuth, accounts>>

\* A visitor without a session opens the Auth page; nobody is registered.
AuthInit ==
    /\ CinemaIdle
    /\ products = <<>> /\ cart = {} /\ cartIds = 0 /\ orders = <<>> /\ order_items = {}
    /\ checkout = <<>> /\ buy = <<>> /\ priceDialog = <<>> /\ retailerCart = <<>>
    /\ tabs = <<>>
    /\ auth = NewAuth
    /\ accounts = <<>>
    /\ response = "none"
    /\ toast = "none"

AuthNext ==
    \/ \E t \in {"signin", "signup"} : SelectTab(t)
    \/ \E e \in EmailInputs : SetEmail(e)
    \/ \E role \in UserRoles : SetSelectedRole(role)
    \/ \E c \in CityInputs : SetCity(c)
    \/ handleSignUp
    \/ handleSignUpCreate
    \/ handleSignUpInsertRole
    \/ handleSignUpUpdateCity
    \/ handleSignIn
    \/ handleSignInAnswer

SpecAuth == AuthInit /\ [][AuthNext]_vars

\* The place of a step in the sign-up form.
StepNo(a) == CASE Rendered(a) = "details" -> 0 [] Rendered(a) = "otp" -> 1 [] OTHER -> 2

\* C21: handleSignUp issues auth.signUp only after the OTP step has been shown,
\* for a customer or a retailer only after the city step has been shown as well,
\* and for a wholesaler without the city step; a step of the page moves the form
\* on by at most one step and never back to an earlier one.
C21_SignUpAfterItsSteps ==
    [][ /\ (auth.pc = "form" /\ auth'.pc = "signUp") =>
            /\ "otp" \in auth.shown
            /\ auth.selectedRole \in {"customer", "retailer"} => "city" \in auth.shown
            /\ auth.selectedRole = "wholesaler" => "city" \notin auth.shown
        /\ StepNo(auth') \in {StepNo(auth), StepNo(auth) + 1}
        /\ auth.shown \subseteq auth'.shown
      ]_vars

\* C21 witness: a retailer went through the three steps and the account was
\* created with its role and city.
C21_RetailerSignedUp ==
    /\ auth.pc = "home" /\ toast = "success"
    /\ auth.shown = {"details", "otp", "city"}
    /\ auth.user # NoId
    /\ accounts[auth.user].role = "retailer"
    /\ accounts[auth.user].city = "Pune"

====
